---- MODULE Spec2Model ----
(***************************************************************************)
(* A model of the FM synthesizer engine of sortasound                      *)
(* (src/src/fm/fm.cpp, src/include/fm/fm.hpp): the voice pool, the preset  *)
(* template, the control calls noteOn / noteOff / allNotesOff /            *)
(* setPresetConfig and the per-sample pipeline generateSample.             *)
(*                                                                         *)
(* Units.  The source computes in double; the model computes in integers:  *)
(*   - levels, amplitudes and volumes are in units of 1/MAX_VOLUME, so     *)
(*     MAX_VOLUME stands for 1.0;                                          *)
(*   - envelope times (attack, decay, release, envelopeTime) are in units  *)
(*     of one sample period at the construction sample rate, so timeStep_  *)
(*     is 1 after construction;                                            *)
(*   - phases are in units of 1/TWO_PI of a cycle, so TWO_PI stands for    *)
(*     2*pi;                                                               *)
(*   - frequencies are in Hz.                                              *)
(* The voice pool and the operator count are scaled down (MAX_VOICES,      *)
(* MAX_OPERATORS); both are bounds of the model.                           *)
(***************************************************************************)
EXTENDS Integers, FiniteSets, Sequences, TLC

\* ------------------------------------------------------------ bounds
\* Voices in the pool (Constants::MAX_VOICES is 16 in the source).
MAX_VOICES == 2
\* Operators per voice (Constants::MAX_OPERATORS is 6 in the source).
MAX_OPERATORS == 2
\* generateSample is not taken once an operator of an active voice has
\* spent this many sample periods in its envelope state.
MaxEnvelopeTicks == 4
\* Control calls (noteOn, noteOff, allNotesOff, setPresetConfig) made in one run.
MaxCalls == 4
\* Control calls made in one run of the interleaved specification.
MaxRaceCalls == 3
\* Setter calls (and noteOn calls) made in one run of the setter specification.
MaxSetterCalls == 2
\* Calls (control calls and ticks) made on the first of two engine instances.
MaxReplayCalls == 4
\* Audio threads created in one run.
MaxThreads == 2
\* The samples after which a thread begins no further writeSample or
\* writeSamples call.
MaxWrites == 3
\* The notes a control thread plays beside an audio thread.
MaxThreadCalls == 2
\* The frames an audio thread writes to a stream that is being read.
MaxStreamFrames == 2
\* The synthesizer tabs of the window.
MaxTabs == 3
\* The frames rendered by the audio thread of one synthesizer of the window.
MaxRendered == 2

\* --------------------------------------------------------- constants
\* The constants of namespace Constants in the model's units: MAX_VOLUME is
\* 1.0 in tenths, TWO_PI is one cycle in eighths, and the sample rate is
\* four times the frequency of A4 so that phase increments are whole eighths.
MIN_VOLUME == 0
MAX_VOLUME == 10
TWO_PI == 8
DEFAULT_SAMPLE_RATE == 1760
MIDI_A4_NOTE == 69
MIDI_A4_FREQUENCY == 440
MIDI_NOTES_PER_OCTAVE == 12
MAX_CHANNELS == 8
MAX_ALGORITHMS == 32
MIN_AMPLITUDE == 0
MAX_AMPLITUDE == 10
MIN_EFFECT_AMOUNT == 0
MAX_EFFECT_AMOUNT == 10
\* The floor of the envelope times, one sample period in the model's scale.
MIN_ENVELOPE_TIME == 1
\* Half a cycle in phase units.
PI == 4
\* The lowest supported sample rate, in the model half the construction rate.
MIN_SAMPLE_RATE == 880
\* The 14-bit sample range and its scale.
AUDIO_MAX_VALUE == 8191
AUDIO_MIN_VALUE == -8192
AUDIO_SCALE == 8191
\* Effect and pan constants: the distortion gain multiplier is a plain factor,
\* the others are in units of 1/MAX_VOLUME.
DISTORTION_GAIN_MULTIPLIER == 10
CHORUS_DEPTH == 1
REVERB_GAIN == 3
PAN_LEFT == -5
PAN_RIGHT == 5
PAN_SCALE == 5
\* The frames of one batch of the audio thread (256 in the source).
BATCH_SIZE == 2

\* EnvelopeState
OFF == "OFF"
ATTACK == "ATTACK"
DECAY == "DECAY"
SUSTAIN == "SUSTAIN"
RELEASE == "RELEASE"
EnvelopeState == {OFF, ATTACK, DECAY, SUSTAIN, RELEASE}

\* WaveformType
SINE == "SINE"
SAWTOOTH == "SAWTOOTH"
SQUARE == "SQUARE"
TRIANGLE == "TRIANGLE"

VoiceIdx == 0 .. (MAX_VOICES - 1)
OpIdx == 0 .. (MAX_OPERATORS - 1)

\* The notes and velocities the control calls are made with: 60 yields the
\* frequency of A4 (the exponent (60 - 69) / 12 truncates to 0), 81 the octave
\* above.
Notes == {60, 81}
Velocities == {MAX_VOLUME}

VARIABLES
    voices_,         \* std::array<Voice, MAX_VOICES>
    currentPreset_,  \* the preset template applied by noteOn
    sampleRate_,
    timeStep_,
    channels_,       \* std::array<Channel, MAX_CHANNELS>
    masterVolume_,
    reverbAmount_,
    chorusAmount_,
    distortionAmount_,
    timeSumShort,    \* the rounding of the envelopeTime sums (see Reached)
    lastCall,        \* history: the call that produced this state
    calls,           \* history: the number of control calls made so far
    ctl,             \* control thread inside a noteOn (interleaved specification)
    aud,             \* audio thread inside a generateSample (interleaved specification)
    router,          \* one voice of six operators, the algorithm applied to it, its output
    replay,          \* history: the calls and samples of two engine instances
    audioThreadRunning_,  \* std::atomic<bool>
    shouldStop_,          \* std::atomic<bool>
    audioThread_,    \* std::thread: the thread it stands for, 0 when not joinable
    audioIODevice_,  \* whether setupAudio found an output device (non-null pointer)
    audioThreads,    \* the threads running audioThreadFunction, by creation number
    caller,          \* the control threads inside startAudioThread / stopAudioThread
    terminated,      \* std::terminate has been called
    deviceWrites,    \* history: the batches passed to audioIODevice_->write
    frames,          \* history: the number of frames the audio threads generated
    samples_,        \* FMSampleStream: std::queue<int16_t>
    mutex_,          \* FMSampleStream: the thread holding the mutex, <<>> when free
    condition_,      \* FMSampleStream: the readers blocked in condition_.wait
    readers,         \* the threads inside readSample / readSamples
    written,         \* history: every sample pushed, in the order of the pushes
    synthesizers_,   \* the window's synthesizers, each with its audio thread's flag
    currentSynthesizerIndex_,
    tabCount,        \* synthesizerTabWidget_->count()
    windowCall,      \* history: the last handler of the window that ran
    playing_,        \* TrackerWidget
    paused_,         \* TrackerWidget
    currentStep_,    \* TrackerWidget: the step the next timer event triggers
    currentPattern_, \* TrackerWidget: index into patterns_, counted from 0
    patterns_,       \* TrackerWidget: the step count of every pattern
    tempo_,          \* TrackerWidget: beats per minute
    playbackTimer_,  \* QTimer: the interval it runs with, 0 when stopped
    triggered,       \* history: the steps triggered since the last play() or stop()
    trackerCall,     \* history: the last function of the tracker that ran
    channelVolumes_,     \* FMSynthesizerManager
    channelModulations_, \* FMSynthesizerManager
    managerCall,     \* history: the last call on the manager
    taken            \* history: every sample popped, in the order of the pops

\* The channels, the master volume and the effect amounts.
controls == <<channels_, masterVolume_, reverbAmount_, chorusAmount_, distortionAmount_>>
engine == <<voices_, currentPreset_, sampleRate_, timeStep_, controls>>
\* What the engine's calls leave alone.
\* The audio thread and its control.
threading == <<audioThreadRunning_, shouldStop_, audioThread_, audioIODevice_,
               audioThreads, caller, terminated, deviceWrites, frames>>
\* The sample stream and its users.
stream == <<samples_, mutex_, condition_, readers, written, taken>>
window == <<synthesizers_, currentSynthesizerIndex_, tabCount, windowCall>>
\* The tracker widget.
tracker == <<playing_, paused_, currentStep_, currentPattern_, patterns_, tempo_,
             playbackTimer_, triggered, trackerCall>>
\* The manager in front of the engine.
manager == <<channelVolumes_, channelModulations_, managerCall>>
beyondEngine == <<router, replay, threading, stream, window, tracker, manager>>
vars == <<voices_, currentPreset_, sampleRate_, timeStep_, controls, timeSumShort,
          lastCall, calls, ctl, aud, beyondEngine>>

\* ------------------------------------------------------- arithmetic
\* C++ integer division truncates toward zero.
TruncDiv(a, b) ==
    IF a >= 0 THEN a \div b ELSE -((-a) \div b)

RECURSIVE Pow2(_)
Pow2(k) == IF k <= 0 THEN 1 ELSE 2 * Pow2(k - 1)

\* noteToFrequency22Bit: MIDI_A4_FREQUENCY * pow(2.0, (note - MIDI_A4_NOTE) /
\* MIDI_NOTES_PER_OCTAVE), the exponent being a quotient of two ints; the result
\* is then rounded to the 2^-22 grid, which every value below is on.
noteToFrequency22Bit(note) ==
    LET e == TruncDiv(note - MIDI_A4_NOTE, MIDI_NOTES_PER_OCTAVE)
    IN  IF e >= 0 THEN MIDI_A4_FREQUENCY * Pow2(e)
        ELSE MIDI_A4_FREQUENCY \div Pow2(-e)

\* calculatePhaseIncrement22Bit: TWO_PI * frequency / sampleRate_.
calculatePhaseIncrement22Bit(frequency) ==
    (TWO_PI * frequency) \div sampleRate_

\* ------------------------------------------------------------ types
\* struct Operator with its default member initializers.  The envelope times
\* (0.01 s, 0.1 s and 0.3 s in the source) are in sample periods, scaled down
\* so that a whole envelope fits into MaxEnvelopeTicks; their order is kept.
DefaultOperator ==
    [frequency |-> 440, amplitude |-> 5, modulationIndex |-> 1,
     waveform |-> SINE,
     attack |-> 1, decay |-> 2, sustain |-> 7, release |-> 3,
     envelopeState |-> OFF, envelopeLevel |-> 0, envelopeTime |-> 0,
     phaseAccumulator |-> 0, phaseIncrement |-> 0,
     pitchBend |-> 1, modulationWheel |-> 0, velocity |-> MAX_VOLUME]

\* struct Voice with its default member initializers.
DefaultVoice ==
    [operators |-> [op \in OpIdx |-> DefaultOperator],
     active |-> FALSE, note |-> -1, velocity |-> MAX_VOLUME, channel |-> 0]

\* The preset template the constructor stores.
DefaultPreset ==
    [frequencies |-> [op \in OpIdx |-> 1],
     amplitudes |-> [op \in OpIdx |-> 5],
     modulationIndices |-> [op \in OpIdx |-> 0],
     waveforms |-> [op \in OpIdx |-> SINE],
     attacks |-> [op \in OpIdx |-> 1],
     decays |-> [op \in OpIdx |-> 2],
     sustains |-> [op \in OpIdx |-> 7],
     releases |-> [op \in OpIdx |-> 3]]

\* The argument tuples setPresetConfig is called with: a preset whose
\* operators release one after the other, and one with sustain 0.
StaggeredPreset ==
    [frequencies |-> [op \in OpIdx |-> 1 + (op % 2)],
     amplitudes |-> [op \in OpIdx |-> MAX_VOLUME],
     modulationIndices |-> [op \in OpIdx |-> op],
     waveforms |-> [op \in OpIdx |-> IF op = 0 THEN SQUARE ELSE SINE],
     attacks |-> [op \in OpIdx |-> 2],
     decays |-> [op \in OpIdx |-> 1],
     sustains |-> [op \in OpIdx |-> 5],
     releases |-> [op \in OpIdx |-> 1 + op]]

PluckPreset ==
    [frequencies |-> [op \in OpIdx |-> 2],
     amplitudes |-> [op \in OpIdx |-> 8],
     modulationIndices |-> [op \in OpIdx |-> 2],
     waveforms |-> [op \in OpIdx |-> SAWTOOTH],
     attacks |-> [op \in OpIdx |-> 1],
     decays |-> [op \in OpIdx |-> 2],
     sustains |-> [op \in OpIdx |-> 0],
     releases |-> [op \in OpIdx |-> 2]]

\* A preset whose sustain levels and amplitudes lie above 1.0: setPresetConfig
\* takes any doubles.
HotPreset ==
    [frequencies |-> [op \in OpIdx |-> 1],
     amplitudes |-> [op \in OpIdx |-> 15],
     modulationIndices |-> [op \in OpIdx |-> 0],
     waveforms |-> [op \in OpIdx |-> SINE],
     attacks |-> [op \in OpIdx |-> 1],
     decays |-> [op \in OpIdx |-> 1],
     sustains |-> [op \in OpIdx |-> 12],
     releases |-> [op \in OpIdx |-> 2]]

PresetConfigs == {DefaultPreset, StaggeredPreset, PluckPreset, HotPreset}

\* struct Channel with its default member initializers.
DefaultChannel ==
    [active |-> FALSE, algorithm |-> 0, masterVolume |-> MAX_VOLUME,
     pitchBend |-> 1, modulationWheel |-> 0]

ChannelIdx == 0 .. (MAX_CHANNELS - 1)

NoCall == [op |-> "init", note |-> -1, voice |-> -1, stole |-> FALSE]
IdleCtl ==
    [pc |-> "idle", note |-> -1, velocity |-> 0, voice |-> -1, op |-> 0,
     stole |-> FALSE]
IdleAud == [pc |-> "idle", voice |-> 0, op |-> 0]

\* The operators the algorithm functions address: ops[0] .. ops[5].
RoutedOps == 0 .. 5

\* An operator in its sustain phase at full level, as noteOn and the envelope
\* leave it under a preset with amplitude 1.0, sustain 1.0 and modulation
\* index 1.0.
SoundingOperator(phase) ==
    [DefaultOperator EXCEPT
        !.amplitude = MAX_AMPLITUDE, !.sustain = MAX_VOLUME,
        !.envelopeState = SUSTAIN, !.envelopeLevel = MAX_VOLUME,
        !.phaseAccumulator = phase,
        !.phaseIncrement = (TWO_PI * DefaultOperator.frequency) \div DEFAULT_SAMPLE_RATE]

\* No voice has been routed yet.
IdleRouter ==
    [voice |-> [operators |-> [op \in RoutedOps |-> SoundingOperator(0)]],
     algorithm |-> -1, voiceOutput |-> 0]

\* The engine after construction.
InitEngine ==
    /\ voices_ = [v \in VoiceIdx |-> DefaultVoice]
    /\ currentPreset_ = DefaultPreset
    /\ sampleRate_ = DEFAULT_SAMPLE_RATE
    /\ timeStep_ = DEFAULT_SAMPLE_RATE \div DEFAULT_SAMPLE_RATE
    /\ channels_ = [c \in ChannelIdx |-> DefaultChannel]
    /\ masterVolume_ = MAX_VOLUME
    /\ reverbAmount_ = MIN_EFFECT_AMOUNT
    /\ chorusAmount_ = MIN_EFFECT_AMOUNT
    /\ distortionAmount_ = MIN_EFFECT_AMOUNT
    /\ timeSumShort \in BOOLEAN
    /\ lastCall = NoCall
    /\ calls = 0
    /\ ctl = IdleCtl
    /\ aud = IdleAud

\* The first instance has been constructed and not been called yet.
NoReplay ==
    [run |-> 1, trace |-> <<>>, pos |-> 0, outputs |-> <<>>,
     first |-> [engine |-> <<>>, outputs |-> <<>>]]

\* The control threads calling startAudioThread and stopAudioThread.
Callers == {1, 2}
\* The threads reading the sample stream.
Readers == {1, 2}
ThreadIds == 1 .. MaxThreads

\* A thread that has not been created, a control thread outside any call, a
\* reader outside any call.
NoThread == [pc |-> "none", i |-> 0, pending |-> <<>>]
IdleCaller == [pc |-> "idle", op |-> "none", result |-> "none"]
IdleReader ==
    [pc |-> "idle", op |-> "none", count |-> 0, got |-> <<>>, waited |-> FALSE]

\* The constructor's initializers of the thread members, without an output
\* device, and the empty sample stream it creates.
InitThreading ==
    /\ audioThreadRunning_ = FALSE
    /\ shouldStop_ = FALSE
    /\ audioThread_ = 0
    /\ audioThreads = [t \in ThreadIds |-> NoThread]
    /\ caller = [c \in Callers |-> IdleCaller]
    /\ terminated = FALSE
    /\ deviceWrites = <<>>
    /\ frames = 0

InitStream ==
    /\ samples_ = <<>>
    /\ mutex_ = <<>>
    /\ condition_ = {}
    /\ readers = [r \in Readers |-> IdleReader]
    /\ written = <<>>
    /\ taken = <<>>

\* A synthesizer of the window as the constructor of FMSynthesizer leaves
\* it: no audio thread, no voice sounding, nothing rendered.
NewSynthesizer == [audioThreadRunning_ |-> FALSE, sounding |-> {}, rendered |-> 0]

\* The synthesizer after startAudioThread.
Started(synth) == [synth EXCEPT !.audioThreadRunning_ = TRUE]

\* The window after its constructor: setupUI has added the tab "Synth 1", the
\* first synthesizer has been created and started.
\* The steps of a new pattern (64 in the source).
DEFAULT_STEPS == 3
DEFAULT_TEMPO == 120
MIN_TEMPO == 60
MAX_TEMPO == 200
\* The patterns the widget is given at most.
MaxPatterns == 2
\* The steps triggered at most between two calls of play() or stop().
MaxTriggered == 4

\* TrackerWidget::TrackerWidget: the member initialisers, then addPattern().
InitTracker ==
    /\ playing_ = FALSE
    /\ paused_ = FALSE
    /\ currentStep_ = 0
    /\ currentPattern_ = 0
    /\ patterns_ = <<DEFAULT_STEPS>>
    /\ tempo_ = DEFAULT_TEMPO
    /\ playbackTimer_ = 0
    /\ triggered = <<>>
    /\ trackerCall = "TrackerWidget"

MAX_MIDI_CHANNELS == 16
MidiChannelIdx == 0 .. (MAX_MIDI_CHANNELS - 1)
\* enum class MIDIController
MODULATION_WHEEL == 1
VOLUME == 7
EXPRESSION == 11
\* The calls made on the manager at most.
MaxManagerCalls == 3

NoManagerCall == [op |-> "init", channel |-> 0, n |-> 0, read |-> <<>>]

\* FMSynthesizerManager::FMSynthesizerManager
InitManager ==
    /\ channelVolumes_ = [c \in MidiChannelIdx |-> MAX_VOLUME]
    /\ channelModulations_ = [c \in MidiChannelIdx |-> MIN_EFFECT_AMOUNT]
    /\ managerCall = NoManagerCall

InitWindow ==
    /\ synthesizers_ = <<Started(NewSynthesizer)>>
    /\ currentSynthesizerIndex_ = 0
    /\ tabCount = 1
    /\ windowCall = "MainWindow"

Init ==
    /\ InitEngine
    /\ router = IdleRouter
    /\ replay = NoReplay
    /\ InitThreading
    /\ audioIODevice_ = FALSE
    /\ InitStream
    /\ InitWindow
    /\ InitTracker
    /\ InitManager

\* ------------------------------------------------- voice allocator
RECURSIVE firstInactiveFrom(_)
firstInactiveFrom(v) ==
    IF v >= MAX_VOICES THEN -1
    ELSE IF ~voices_[v].active THEN v
    ELSE firstInactiveFrom(v + 1)

\* Mutant: the scan returns the last inactive voice instead of the first.
RECURSIVE lastInactiveFrom(_)
lastInactiveFrom(v) ==
    IF v < 0 THEN -1
    ELSE IF ~voices_[v].active THEN v
    ELSE lastInactiveFrom(v - 1)

findFreeVoiceLast == lastInactiveFrom(MAX_VOICES - 1)

\* findFreeVoice: the first voice with active = false, -1 when there is none.
findFreeVoice == firstInactiveFrom(0)

\* releaseVoice(voice) applied to the pool vs.
releaseVoice(vs, voice) ==
    IF voice >= 0 /\ voice < MAX_VOICES
    THEN [vs EXCEPT ![voice].active = FALSE, ![voice].note = -1]
    ELSE vs

\* Mutant: the last voice is reused when none is free.
allocatedVoiceStealLast ==
    IF findFreeVoice = -1 THEN MAX_VOICES - 1 ELSE findFreeVoice

\* The voice noteOn writes: the free voice, or voice 0 when none is free.
allocatedVoice ==
    IF findFreeVoice = -1 THEN 0 ELSE findFreeVoice

\* The pool after the first lines of noteOn: voice 0 is released when stolen.
poolAfterSteal ==
    IF findFreeVoice = -1 THEN releaseVoice(voices_, 0) ELSE voices_

\* The body of noteOn's operator loop for one operator.
initOperator(o, op, note) ==
    LET frequency == noteToFrequency22Bit(note) * currentPreset_.frequencies[op]
    IN  [o EXCEPT
            !.frequency = frequency,
            !.amplitude = currentPreset_.amplitudes[op],
            !.modulationIndex = currentPreset_.modulationIndices[op],
            !.waveform = currentPreset_.waveforms[op],
            !.attack = currentPreset_.attacks[op],
            !.decay = currentPreset_.decays[op],
            !.sustain = currentPreset_.sustains[op],
            !.release = currentPreset_.releases[op],
            !.phaseIncrement = calculatePhaseIncrement22Bit(frequency),
            !.envelopeState = ATTACK,
            !.envelopeTime = 0,
            !.envelopeLevel = 0]

\* Mutant: the voice is assigned to the last channel.
activateVoiceOnLastChannel(vc, note, velocity) ==
    [vc EXCEPT !.active = TRUE, !.note = note, !.velocity = velocity,
               !.channel = MAX_CHANNELS - 1]

\* Mutant: the velocity of the note is also written to the operators.
activateVoiceIntoOperators(vc, note, velocity) ==
    [vc EXCEPT !.active = TRUE, !.note = note, !.velocity = velocity,
               !.channel = 0,
               !.operators = [op \in DOMAIN vc.operators |->
                                 [vc.operators[op] EXCEPT !.velocity = velocity]]]

\* The four assignments to the voice that precede the operator loop.
activateVoice(vc, note, velocity) ==
    [vc EXCEPT !.active = TRUE, !.note = note, !.velocity = velocity,
               !.channel = 0]

\* The pool after noteOn(note, velocity).
noteOnPool(note, velocity) ==
    LET voice == allocatedVoice
        vs == poolAfterSteal
        vc == activateVoice(vs[voice], note, velocity)
    IN  [vs EXCEPT ![voice] =
            [vc EXCEPT !.operators =
                [op \in OpIdx |-> initOperator(vc.operators[op], op, note)]]]

\* noteOn(note, velocity), run without interruption.
noteOn(note, velocity) ==
    /\ ctl.pc = "idle" /\ aud.pc = "idle" /\ calls < MaxCalls
    /\ voices_' = noteOnPool(note, velocity)
    /\ lastCall' = [op |-> "noteOn", note |-> note, voice |-> allocatedVoice,
                    stole |-> (findFreeVoice = -1)]
    /\ calls' = calls + 1
    /\ UNCHANGED <<currentPreset_, sampleRate_, timeStep_, controls, timeSumShort, ctl, aud>>

\* The body of the release loop of noteOff and allNotesOff for one operator.
releaseOperator(o) ==
    [o EXCEPT !.envelopeState = RELEASE, !.envelopeTime = 0]

releaseAllOperators(vc) ==
    [vc EXCEPT !.operators = [op \in OpIdx |-> releaseOperator(vc.operators[op])]]

\* Mutant: the active flag is not tested.
noteOffMatchesAnyVoice(vc, note) == vc.note = note

\* The voices noteOff(note) releases.
noteOffMatches(vc, note) == vc.active /\ vc.note = note

\* Mutant: the loop stops at the first matching voice.
noteOffPoolFirstOnly(note) ==
    [v \in VoiceIdx |->
        IF /\ noteOffMatches(voices_[v], note)
           /\ \A w \in VoiceIdx : w < v => ~noteOffMatches(voices_[w], note)
        THEN releaseAllOperators(voices_[v])
        ELSE voices_[v]]

\* The pool after noteOff(note).
noteOffPool(note) ==
    [v \in VoiceIdx |->
        IF noteOffMatches(voices_[v], note)
        THEN releaseAllOperators(voices_[v])
        ELSE voices_[v]]

\* noteOff(note)
noteOff(note) ==
    /\ ctl.pc = "idle" /\ aud.pc = "idle" /\ calls < MaxCalls
    /\ voices_' = noteOffPool(note)
    /\ lastCall' = [op |-> "noteOff", note |-> note, voice |-> -1, stole |-> FALSE]
    /\ calls' = calls + 1
    /\ UNCHANGED <<currentPreset_, sampleRate_, timeStep_, controls, timeSumShort, ctl, aud>>

\* Mutant: inactive voices are released too.
allNotesOffMatchesEveryVoice(vc) == TRUE

\* The voices allNotesOff releases.
allNotesOffMatches(vc) == vc.active

\* The pool after allNotesOff().
allNotesOffPool ==
    [v \in VoiceIdx |->
        IF allNotesOffMatches(voices_[v])
        THEN releaseAllOperators(voices_[v])
        ELSE voices_[v]]

\* allNotesOff()
allNotesOff ==
    /\ ctl.pc = "idle" /\ aud.pc = "idle" /\ calls < MaxCalls
    /\ voices_' = allNotesOffPool
    /\ lastCall' = [op |-> "allNotesOff", note |-> -1, voice |-> -1, stole |-> FALSE]
    /\ calls' = calls + 1
    /\ UNCHANGED <<currentPreset_, sampleRate_, timeStep_, controls, timeSumShort, ctl, aud>>

\* Mutant: the new template is also written to the sounding voices.
setPresetConfigRetroactive(p) ==
    /\ ctl.pc = "idle" /\ aud.pc = "idle" /\ calls < MaxCalls
    /\ currentPreset_' = p
    /\ voices_' = [v \in VoiceIdx |->
           IF voices_[v].active
           THEN [voices_[v] EXCEPT !.operators =
                    [op \in OpIdx |->
                        [voices_[v].operators[op] EXCEPT
                            !.amplitude = p.amplitudes[op],
                            !.sustain = p.sustains[op],
                            !.release = p.releases[op]]]]
           ELSE voices_[v]]
    /\ lastCall' = [op |-> "setPresetConfig", note |-> -1, voice |-> -1, stole |-> FALSE]
    /\ calls' = calls + 1
    /\ UNCHANGED <<sampleRate_, timeStep_, controls, timeSumShort, ctl, aud>>

\* setPresetConfig(frequencies, ..., releases)
setPresetConfig(p) ==
    /\ ctl.pc = "idle" /\ aud.pc = "idle" /\ calls < MaxCalls
    /\ currentPreset_' = p
    /\ lastCall' = [op |-> "setPresetConfig", note |-> -1, voice |-> -1, stole |-> FALSE]
    /\ calls' = calls + 1
    /\ UNCHANGED <<voices_, sampleRate_, timeStep_, controls, timeSumShort, ctl, aud>>

\* ------------------------------------------------------- envelope
\* Mutant: the computed sum is short by more than a whole step.
ShortOfByAStep(t, threshold) == t = threshold \/ t = threshold + timeStep_

\* envelopeTime is a sum of timeStep_ in double, and 1.0 / sampleRate has no
\* exact double: where the exact sum equals a threshold, the computed sum is
\* the threshold or just below it, depending on the values (at 44100 Hz, 4410
\* additions of 1.0 / 44100 stay below 0.1, 13230 additions reach 0.3).
\* timeSumShort tells which of the two holds in this run, and ShortOf(t,
\* threshold) that the computed sum t is just below the threshold.
ShortOf(t, threshold) == timeSumShort /\ t = threshold

\* Mutant: the SUSTAIN case misses its break and falls into the RELEASE case.
updateEnvelopeFallThrough(o) ==
    LET t == o.envelopeTime + timeStep_
    IN  CASE o.envelopeState = ATTACK ->
               LET level == (t * MAX_VOLUME) \div o.attack
               IN  IF level >= MAX_VOLUME /\ ~ShortOf(t, o.attack)
                   THEN [o EXCEPT !.envelopeLevel = MAX_VOLUME,
                                  !.envelopeState = DECAY,
                                  !.envelopeTime = 0]
                   ELSE [o EXCEPT !.envelopeLevel = level, !.envelopeTime = t]
          [] o.envelopeState = DECAY ->
               LET level == MAX_VOLUME - ((t * (MAX_VOLUME - o.sustain)) \div o.decay)
               IN  IF /\ level <= o.sustain
                      /\ ~(ShortOf(t, o.decay) /\ o.sustain < MAX_VOLUME)
                   THEN [o EXCEPT !.envelopeLevel = o.sustain,
                                  !.envelopeState = SUSTAIN,
                                  !.envelopeTime = t]
                   ELSE [o EXCEPT !.envelopeLevel = level, !.envelopeTime = t]
          [] o.envelopeState \in {SUSTAIN, RELEASE} ->
               LET level == o.sustain - ((o.sustain * t) \div o.release)
               IN  IF \/ level <= MIN_VOLUME /\ ~(ShortOf(t, o.release) /\ o.sustain > 0)
                      \/ t >= o.release /\ ~ShortOf(t, o.release)
                   THEN [o EXCEPT !.envelopeLevel = MIN_VOLUME,
                                  !.envelopeState = OFF,
                                  !.envelopeTime = t]
                   ELSE [o EXCEPT !.envelopeLevel = level, !.envelopeTime = t]
          [] OTHER ->
               [o EXCEPT !.envelopeLevel = MIN_VOLUME, !.envelopeTime = t]

\* updateEnvelope(op): one sample period of the envelope state machine.
updateEnvelope(o) ==
    LET t == o.envelopeTime + timeStep_
    IN  CASE o.envelopeState = ATTACK ->
               LET level == (t * MAX_VOLUME) \div o.attack
               IN  IF level >= MAX_VOLUME /\ ~ShortOf(t, o.attack)
                   THEN [o EXCEPT !.envelopeLevel = MAX_VOLUME,
                                  !.envelopeState = DECAY,
                                  !.envelopeTime = 0]
                   ELSE [o EXCEPT !.envelopeLevel = level, !.envelopeTime = t]
          [] o.envelopeState = DECAY ->
               LET level == MAX_VOLUME - ((t * (MAX_VOLUME - o.sustain)) \div o.decay)
               IN  IF /\ level <= o.sustain
                      /\ ~(ShortOf(t, o.decay) /\ o.sustain < MAX_VOLUME)
                   THEN [o EXCEPT !.envelopeLevel = o.sustain,
                                  !.envelopeState = SUSTAIN,
                                  !.envelopeTime = t]
                   ELSE [o EXCEPT !.envelopeLevel = level, !.envelopeTime = t]
          [] o.envelopeState = SUSTAIN ->
               [o EXCEPT !.envelopeLevel = o.sustain, !.envelopeTime = t]
          [] o.envelopeState = RELEASE ->
               LET level == o.sustain - ((o.sustain * t) \div o.release)
               IN  IF \/ level <= MIN_VOLUME /\ ~(ShortOf(t, o.release) /\ o.sustain > 0)
                      \/ t >= o.release /\ ~ShortOf(t, o.release)
                   THEN [o EXCEPT !.envelopeLevel = MIN_VOLUME,
                                  !.envelopeState = OFF,
                                  !.envelopeTime = t]
                   ELSE [o EXCEPT !.envelopeLevel = level, !.envelopeTime = t]
          [] OTHER ->
               [o EXCEPT !.envelopeLevel = MIN_VOLUME, !.envelopeTime = t]

\* updateOperatorPhase22Bit(op): advance and wrap the phase accumulator.
updateOperatorPhase22Bit(o) ==
    LET phaseInc == calculatePhaseIncrement22Bit(o.frequency)
        acc == o.phaseAccumulator + phaseInc * o.pitchBend
    IN  [o EXCEPT !.phaseAccumulator =
            IF acc >= TWO_PI THEN acc - TWO_PI ELSE acc]

\* Mutant: the flag is set as soon as one operator is OFF.
allReleasedAnyOperator(vc) ==
    \E op \in OpIdx : vc.operators[op].envelopeState = OFF

\* The allReleased flag of generateSample for a voice.
allReleased(vc) ==
    \A op \in OpIdx : vc.operators[op].envelopeState = OFF

\* The voice after the envelope loop of generateSample.
envelopesUpdated(vc) ==
    [vc EXCEPT !.operators = [op \in OpIdx |-> updateEnvelope(vc.operators[op])]]

\* The voice after the phase loop of generateSample.
phasesUpdated(vc) ==
    [vc EXCEPT !.operators =
        [op \in OpIdx |-> updateOperatorPhase22Bit(vc.operators[op])]]

\* Mutant: the all-OFF test runs before the envelope loop.
generateSampleVoiceTestFirst(vc) ==
    IF ~vc.active THEN vc
    ELSE IF \A op \in OpIdx : vc.operators[op].envelopeState = OFF
         THEN [vc EXCEPT !.active = FALSE]
         ELSE LET u == [vc EXCEPT !.operators =
                           [op \in OpIdx |-> updateEnvelope(vc.operators[op])]]
              IN  [u EXCEPT !.operators =
                      [op \in OpIdx |-> updateOperatorPhase22Bit(u.operators[op])]]

\* The body of generateSample's voice loop for one voice.
generateSampleVoice(vc) ==
    IF ~vc.active THEN vc
    ELSE LET u == envelopesUpdated(vc)
         IN  IF allReleased(u)
             THEN [u EXCEPT !.active = FALSE]
             ELSE phasesUpdated(u)

\* generateSample is taken while no envelope time has reached the bound.
tickAllowed ==
    \A v \in VoiceIdx : \A op \in OpIdx :
        voices_[v].active => voices_[v].operators[op].envelopeTime < MaxEnvelopeTicks

\* generateSample(left, right): one sample tick over the whole pool.
generateSample ==
    /\ ctl.pc = "idle" /\ aud.pc = "idle"
    /\ tickAllowed
    /\ voices_' = [v \in VoiceIdx |-> generateSampleVoice(voices_[v])]
    /\ lastCall' = [op |-> "generateSample", note |-> -1, voice |-> -1, stole |-> FALSE]
    /\ UNCHANGED calls
    /\ UNCHANGED <<currentPreset_, sampleRate_, timeStep_, controls, timeSumShort, ctl, aud>>

Next ==
    \/ /\ \E note \in Notes, velocity \in Velocities : noteOn(note, velocity)
       /\ UNCHANGED beyondEngine
    \/ /\ \E note \in Notes : noteOff(note)
       /\ UNCHANGED beyondEngine
    \/ /\ allNotesOff
       /\ UNCHANGED beyondEngine
    \/ /\ \E p \in PresetConfigs : setPresetConfig(p)
       /\ UNCHANGED beyondEngine
    \/ /\ generateSample
       /\ UNCHANGED beyondEngine

Spec == Init /\ [][Next]_vars

\* ---------------------------------------- interleaved specification
\* noteOn on a control thread and generateSample on the audio thread share
\* voices_ without any lock: each proceeds one statement group at a time.

\* noteOn, lines 141-145: voice = findFreeVoice(); when there is none,
\* voice 0 is taken and released.
CtlNoteOnBegin(note, velocity) ==
    /\ ctl.pc = "idle" /\ calls < MaxRaceCalls
    /\ voices_' = poolAfterSteal
    /\ ctl' = [pc |-> "activate", note |-> note, velocity |-> velocity,
               voice |-> allocatedVoice, op |-> 0,
               stole |-> (findFreeVoice = -1)]
    /\ calls' = calls + 1
    /\ UNCHANGED <<currentPreset_, sampleRate_, timeStep_, controls, timeSumShort, lastCall, aud>>

\* noteOn, lines 147-150: active, note, velocity, channel.
CtlNoteOnActivate ==
    /\ ctl.pc = "activate"
    /\ voices_' = [voices_ EXCEPT ![ctl.voice] =
           activateVoice(voices_[ctl.voice], ctl.note, ctl.velocity)]
    /\ ctl' = [ctl EXCEPT !.pc = "ops", !.op = 0]
    /\ UNCHANGED <<currentPreset_, sampleRate_, timeStep_, controls, timeSumShort, lastCall, calls, aud>>

\* noteOn, lines 153-167: one iteration of the operator loop; the call
\* returns after the last one.
CtlNoteOnInitOp ==
    /\ ctl.pc = "ops"
    /\ voices_' = [voices_ EXCEPT ![ctl.voice].operators[ctl.op] =
           initOperator(voices_[ctl.voice].operators[ctl.op], ctl.op, ctl.note)]
    /\ IF ctl.op + 1 < MAX_OPERATORS
       THEN /\ ctl' = [ctl EXCEPT !.op = ctl.op + 1]
            /\ UNCHANGED lastCall
       ELSE /\ ctl' = IdleCtl
            /\ lastCall' = [op |-> "noteOn", note |-> ctl.note,
                            voice |-> ctl.voice, stole |-> ctl.stole]
    /\ UNCHANGED <<currentPreset_, sampleRate_, timeStep_, controls, timeSumShort, calls, aud>>

\* noteOff(note) on the control thread, between two steps of the audio thread.
CtlNoteOff(note) ==
    /\ ctl.pc = "idle" /\ calls < MaxRaceCalls
    /\ voices_' = noteOffPool(note)
    /\ lastCall' = [op |-> "noteOff", note |-> note, voice |-> -1, stole |-> FALSE]
    /\ calls' = calls + 1
    /\ UNCHANGED <<currentPreset_, sampleRate_, timeStep_, controls, timeSumShort, ctl, aud>>

\* audioThreadFunction calls generateSample: the voice loop starts at voice 0.
AudBegin ==
    /\ aud.pc = "idle"
    /\ tickAllowed
    /\ aud' = [pc |-> "voice", voice |-> 0, op |-> 0]
    /\ UNCHANGED <<voices_, currentPreset_, sampleRate_, timeStep_, controls,
                   timeSumShort, lastCall, calls, ctl>>

\* generateSample, lines 436-437: the loop test and the active test.
AudVoice ==
    /\ aud.pc = "voice"
    /\ IF aud.voice >= MAX_VOICES
       THEN /\ aud' = IdleAud
            /\ lastCall' = [op |-> "generateSample", note |-> -1, voice |-> -1,
                            stole |-> FALSE]
       ELSE /\ aud' = IF voices_[aud.voice].active
                      THEN [aud EXCEPT !.pc = "env", !.op = 0]
                      ELSE [aud EXCEPT !.voice = aud.voice + 1]
            /\ UNCHANGED lastCall
    /\ UNCHANGED <<voices_, currentPreset_, sampleRate_, timeStep_, controls, timeSumShort, calls, ctl>>

\* generateSample, lines 439-441: updateEnvelope of one operator.
AudEnvelope ==
    /\ aud.pc = "env"
    /\ voices_' = [voices_ EXCEPT ![aud.voice].operators[aud.op] =
           updateEnvelope(voices_[aud.voice].operators[aud.op])]
    /\ aud' = IF aud.op + 1 < MAX_OPERATORS
              THEN [aud EXCEPT !.op = aud.op + 1]
              ELSE [aud EXCEPT !.pc = "check", !.op = 0]
    /\ UNCHANGED <<currentPreset_, sampleRate_, timeStep_, controls, timeSumShort, lastCall, calls, ctl>>

\* generateSample, lines 443-453: the all-OFF test and the deactivation.
AudCheck ==
    /\ aud.pc = "check"
    /\ IF allReleased(voices_[aud.voice])
       THEN /\ voices_' = [voices_ EXCEPT ![aud.voice].active = FALSE]
            /\ aud' = [aud EXCEPT !.pc = "voice", !.voice = aud.voice + 1]
       ELSE /\ aud' = [aud EXCEPT !.pc = "phase"]
            /\ UNCHANGED voices_
    /\ UNCHANGED <<currentPreset_, sampleRate_, timeStep_, controls, timeSumShort, lastCall, calls, ctl>>

\* generateSample, lines 455-500: routing, effects and the phase loop.
AudPhase ==
    /\ aud.pc = "phase"
    /\ voices_' = [voices_ EXCEPT ![aud.voice] = phasesUpdated(voices_[aud.voice])]
    /\ aud' = [aud EXCEPT !.pc = "voice", !.voice = aud.voice + 1]
    /\ UNCHANGED <<currentPreset_, sampleRate_, timeStep_, controls, timeSumShort, lastCall, calls, ctl>>

NextRace ==
    \/ /\ \E note \in Notes, velocity \in Velocities : CtlNoteOnBegin(note, velocity)
       /\ UNCHANGED beyondEngine
    \/ /\ CtlNoteOnActivate
       /\ UNCHANGED beyondEngine
    \/ /\ CtlNoteOnInitOp
       /\ UNCHANGED beyondEngine
    \/ /\ \E note \in Notes : CtlNoteOff(note)
       /\ UNCHANGED beyondEngine
    \/ /\ AudBegin
       /\ UNCHANGED beyondEngine
    \/ /\ AudVoice
       /\ UNCHANGED beyondEngine
    \/ /\ AudEnvelope
       /\ UNCHANGED beyondEngine
    \/ /\ AudCheck
       /\ UNCHANGED beyondEngine
    \/ /\ AudPhase
       /\ UNCHANGED beyondEngine

SpecRace == Init /\ [][NextRace]_vars

\* ------------------------------------------------- control-plane setters
\* Mutant: only the upper bound is applied.
clampUpperOnly(x, lo, hi) == IF hi < x THEN hi ELSE x

\* std::clamp(x, lo, hi)
clamp(x, lo, hi) == IF x < lo THEN lo ELSE IF hi < x THEN hi ELSE x

\* std::max(a, b)
max(a, b) == IF a < b THEN b ELSE a

\* The index tests of the setters.
validOperator(voice, opIndex) ==
    voice >= 0 /\ voice < MAX_VOICES /\ opIndex >= 0 /\ opIndex < MAX_OPERATORS

validChannel(channel) == channel >= 0 /\ channel < MAX_CHANNELS

\* Mutant: the algorithm count itself passes the test.
validAlgorithmInclusive(algorithm) == algorithm >= 0 /\ algorithm <= MAX_ALGORITHMS

validAlgorithm(algorithm) == algorithm >= 0 /\ algorithm < MAX_ALGORITHMS

\* The history record of a setter call with its arguments.
SetterCall(name, args) ==
    [op |-> name, note |-> -1, voice |-> -1, stole |-> FALSE, args |-> args]

\* What every setter call does besides its assignments.
SetterStep(name, args) ==
    /\ ctl.pc = "idle" /\ aud.pc = "idle" /\ calls < MaxSetterCalls
    /\ lastCall' = SetterCall(name, args)
    /\ calls' = calls + 1
    /\ UNCHANGED <<currentPreset_, timeSumShort, ctl, aud>>

setChannelActive(channel, active) ==
    /\ SetterStep("setChannelActive", <<channel, active>>)
    /\ channels_' = IF validChannel(channel)
                    THEN [channels_ EXCEPT ![channel].active = active]
                    ELSE channels_
    /\ UNCHANGED <<voices_, sampleRate_, timeStep_, masterVolume_, reverbAmount_,
                   chorusAmount_, distortionAmount_>>

setOperatorFrequency(voice, opIndex, frequency) ==
    /\ SetterStep("setOperatorFrequency", <<voice, opIndex, frequency>>)
    /\ voices_' = IF validOperator(voice, opIndex)
                  THEN [voices_ EXCEPT ![voice].operators[opIndex] =
                           [@ EXCEPT !.frequency = frequency,
                                     !.phaseIncrement =
                                         calculatePhaseIncrement22Bit(frequency)]]
                  ELSE voices_
    /\ UNCHANGED <<sampleRate_, timeStep_, controls>>

setOperatorAmplitude(voice, opIndex, amplitude) ==
    /\ SetterStep("setOperatorAmplitude", <<voice, opIndex, amplitude>>)
    /\ voices_' = IF validOperator(voice, opIndex)
                  THEN [voices_ EXCEPT ![voice].operators[opIndex].amplitude =
                           clamp(amplitude, MIN_AMPLITUDE, MAX_AMPLITUDE)]
                  ELSE voices_
    /\ UNCHANGED <<sampleRate_, timeStep_, controls>>

setOperatorModulationIndex(voice, opIndex, index) ==
    /\ SetterStep("setOperatorModulationIndex", <<voice, opIndex, index>>)
    /\ voices_' = IF validOperator(voice, opIndex)
                  THEN [voices_ EXCEPT ![voice].operators[opIndex].modulationIndex = index]
                  ELSE voices_
    /\ UNCHANGED <<sampleRate_, timeStep_, controls>>

setOperatorWaveform(voice, opIndex, waveform) ==
    /\ SetterStep("setOperatorWaveform", <<voice, opIndex, waveform>>)
    /\ voices_' = IF validOperator(voice, opIndex)
                  THEN [voices_ EXCEPT ![voice].operators[opIndex].waveform = waveform]
                  ELSE voices_
    /\ UNCHANGED <<sampleRate_, timeStep_, controls>>

setAlgorithm(channel, algorithm) ==
    /\ SetterStep("setAlgorithm", <<channel, algorithm>>)
    /\ channels_' = IF validChannel(channel) /\ validAlgorithm(algorithm)
                    THEN [channels_ EXCEPT ![channel].algorithm = algorithm]
                    ELSE channels_
    /\ UNCHANGED <<voices_, sampleRate_, timeStep_, masterVolume_, reverbAmount_,
                   chorusAmount_, distortionAmount_>>

setEnvelope(voice, opIndex, attack, decay, sustain, release) ==
    /\ SetterStep("setEnvelope", <<voice, opIndex, attack, decay, sustain, release>>)
    /\ voices_' = IF validOperator(voice, opIndex)
                  THEN [voices_ EXCEPT ![voice].operators[opIndex] =
                           [@ EXCEPT !.attack = max(MIN_ENVELOPE_TIME, attack),
                                     !.decay = max(MIN_ENVELOPE_TIME, decay),
                                     !.sustain = clamp(sustain, MIN_VOLUME, MAX_VOLUME),
                                     !.release = max(MIN_ENVELOPE_TIME, release)]]
                  ELSE voices_
    /\ UNCHANGED <<sampleRate_, timeStep_, controls>>

setMasterVolume(volume) ==
    /\ SetterStep("setMasterVolume", <<volume>>)
    /\ masterVolume_' = clamp(volume, MIN_VOLUME, MAX_VOLUME)
    /\ UNCHANGED <<voices_, sampleRate_, timeStep_, channels_, reverbAmount_,
                   chorusAmount_, distortionAmount_>>

\* Mutant: the loop writes to every voice, whatever its channel.
broadcastEveryVoice(channel, field, value) ==
    [v \in VoiceIdx |->
        [voices_[v] EXCEPT !.operators =
            [op \in OpIdx |-> [voices_[v].operators[op] EXCEPT ![field] = value]]]]

\* The body of the broadcast loops of setPitchBend and setModulationWheel.
broadcast(channel, field, value) ==
    [v \in VoiceIdx |->
        IF voices_[v].channel = channel
        THEN [voices_[v] EXCEPT !.operators =
                 [op \in OpIdx |-> [voices_[v].operators[op] EXCEPT ![field] = value]]]
        ELSE voices_[v]]

setPitchBend(channel, bend) ==
    /\ SetterStep("setPitchBend", <<channel, bend>>)
    /\ IF validChannel(channel)
       THEN /\ channels_' = [channels_ EXCEPT ![channel].pitchBend = bend]
            /\ voices_' = broadcast(channel, "pitchBend", bend)
       ELSE UNCHANGED <<channels_, voices_>>
    /\ UNCHANGED <<sampleRate_, timeStep_, masterVolume_, reverbAmount_,
                   chorusAmount_, distortionAmount_>>

setModulationWheel(channel, mod) ==
    /\ SetterStep("setModulationWheel", <<channel, mod>>)
    /\ IF validChannel(channel)
       THEN /\ channels_' = [channels_ EXCEPT ![channel].modulationWheel = mod]
            /\ voices_' = broadcast(channel, "modulationWheel", mod)
       ELSE UNCHANGED <<channels_, voices_>>
    /\ UNCHANGED <<sampleRate_, timeStep_, masterVolume_, reverbAmount_,
                   chorusAmount_, distortionAmount_>>

setReverb(amount) ==
    /\ SetterStep("setReverb", <<amount>>)
    /\ reverbAmount_' = clamp(amount, MIN_EFFECT_AMOUNT, MAX_EFFECT_AMOUNT)
    /\ UNCHANGED <<voices_, sampleRate_, timeStep_, channels_, masterVolume_,
                   chorusAmount_, distortionAmount_>>

setChorus(amount) ==
    /\ SetterStep("setChorus", <<amount>>)
    /\ chorusAmount_' = clamp(amount, MIN_EFFECT_AMOUNT, MAX_EFFECT_AMOUNT)
    /\ UNCHANGED <<voices_, sampleRate_, timeStep_, channels_, masterVolume_,
                   reverbAmount_, distortionAmount_>>

setDistortion(amount) ==
    /\ SetterStep("setDistortion", <<amount>>)
    /\ distortionAmount_' = clamp(amount, MIN_EFFECT_AMOUNT, MAX_EFFECT_AMOUNT)
    /\ UNCHANGED <<voices_, sampleRate_, timeStep_, channels_, masterVolume_,
                   reverbAmount_, chorusAmount_>>

\* The arguments the setters are called with: amounts below, within and above
\* [0, 1]; operator, channel and algorithm indices at and beyond both ends of
\* their ranges; envelopes with times at and below 0 and sustain levels
\* outside [0, 1].
Amounts == {-5, 5, 15}
OperatorArgs ==
    {<<0, 0>>, <<-1, 0>>, <<MAX_VOICES, 0>>, <<0, -1>>, <<0, MAX_OPERATORS>>}
ChannelArgs == {-1, 0, MAX_CHANNELS - 1, MAX_CHANNELS}
AlgorithmArgs ==
    {<<0, MAX_ALGORITHMS - 1>>, <<MAX_CHANNELS - 1, 1>>, <<-1, 1>>,
     <<MAX_CHANNELS, 1>>, <<0, -1>>, <<0, MAX_ALGORITHMS>>}
EnvelopeArgs == {<<0, -3, 15, 2>>, <<2, 1, -5, 0>>}

\* The setters, and noteOn to have voices sound while they are called.
NextSetters ==
    \/ /\ \E note \in Notes, velocity \in Velocities :
             calls < MaxSetterCalls /\ noteOn(note, velocity)
       /\ UNCHANGED beyondEngine
    \/ /\ \E channel \in ChannelArgs : setChannelActive(channel, TRUE)
       /\ UNCHANGED beyondEngine
    \/ /\ \E a \in OperatorArgs : setOperatorFrequency(a[1], a[2], 2 * MIDI_A4_FREQUENCY)
       /\ UNCHANGED beyondEngine
    \/ /\ \E a \in OperatorArgs, amplitude \in Amounts :
             setOperatorAmplitude(a[1], a[2], amplitude)
       /\ UNCHANGED beyondEngine
    \/ /\ \E a \in OperatorArgs : setOperatorModulationIndex(a[1], a[2], 3)
       /\ UNCHANGED beyondEngine
    \/ /\ \E a \in OperatorArgs : setOperatorWaveform(a[1], a[2], TRIANGLE)
       /\ UNCHANGED beyondEngine
    \/ /\ \E a \in AlgorithmArgs : setAlgorithm(a[1], a[2])
       /\ UNCHANGED beyondEngine
    \/ /\ \E a \in OperatorArgs, e \in EnvelopeArgs :
             setEnvelope(a[1], a[2], e[1], e[2], e[3], e[4])
       /\ UNCHANGED beyondEngine
    \/ /\ \E volume \in Amounts : setMasterVolume(volume)
       /\ UNCHANGED beyondEngine
    \/ /\ \E channel \in ChannelArgs : setPitchBend(channel, 2)
       /\ UNCHANGED beyondEngine
    \/ /\ \E channel \in ChannelArgs : setModulationWheel(channel, 5)
       /\ UNCHANGED beyondEngine
    \/ /\ \E amount \in Amounts : setReverb(amount)
       /\ UNCHANGED beyondEngine
    \/ /\ \E amount \in Amounts : setChorus(amount)
       /\ UNCHANGED beyondEngine
    \/ /\ \E amount \in Amounts : setDistortion(amount)
       /\ UNCHANGED beyondEngine

SpecSetters == Init /\ [][NextSetters]_vars

\* ------------------------------------------------------- sample output
\* Sample values are in units of 1/MAX_VOLUME like the levels; a modulation
\* of 1.0 moves the phase by one phase unit.

\* sin over the phase units of one cycle, in units of 1/MAX_VOLUME.
sin(phase) == <<0, 7, 10, 7, 0, -7, -10, -7>>[(phase % TWO_PI) + 1]

\* tanh: odd, increasing, within (-1, 1): 0.5 at 0.5, 0.8 at 1.0, 1.0 from 2.0.
tanh(x) ==
    LET a == IF x < 0 THEN -x ELSE x
        t == IF a <= 5 THEN a
             ELSE IF a <= 10 THEN 5 + ((a - 5) * 3) \div 5
             ELSE IF a <= 20 THEN 8 + (a - 10) \div 5
             ELSE MAX_VOLUME
    IN  IF x < 0 THEN -t ELSE t

\* generateOperatorOutput(op, modulation)
generateOperatorOutput(o, modulation) ==
    LET phase == o.phaseAccumulator + TruncDiv(modulation * o.modulationIndex, MAX_VOLUME)
        output ==
            CASE o.waveform = SINE -> sin(phase)
              [] o.waveform = SAWTOOTH ->
                     TruncDiv(2 * MAX_VOLUME * phase, TWO_PI) - MAX_VOLUME
              [] o.waveform = SQUARE ->
                     IF phase < PI THEN MAX_VOLUME ELSE -MAX_VOLUME
              [] o.waveform = TRIANGLE ->
                     IF phase < PI
                     THEN TruncDiv(2 * MAX_VOLUME * phase, PI) - MAX_VOLUME
                     ELSE 3 * MAX_VOLUME - TruncDiv(2 * MAX_VOLUME * phase, PI)
    IN  TruncDiv(output * o.amplitude * o.envelopeLevel * o.velocity,
                 MAX_VOLUME * MAX_VOLUME * MAX_VOLUME)

\* processAlgorithm0: the serial chain, the last operator modulating the one
\* before it, down to operator 0, the carrier.
RECURSIVE chainOutput(_, _, _)
chainOutput(vc, op, modulation) ==
    LET out == generateOperatorOutput(vc.operators[op], modulation)
    IN  IF op = 0 THEN out ELSE chainOutput(vc, op - 1, out)

\* processAlgorithm31: every operator is a carrier, the outputs are summed.
RECURSIVE parallelOutput(_, _)
parallelOutput(vc, op) ==
    IF op >= MAX_OPERATORS THEN 0
    ELSE generateOperatorOutput(vc.operators[op], 0) + parallelOutput(vc, op + 1)

\* The switch over channels_[channel].algorithm, for the first and the last
\* algorithm.
processAlgorithm(algorithm, vc) ==
    CASE algorithm = 0 -> chainOutput(vc, MAX_OPERATORS - 1, 0)
      [] algorithm = MAX_ALGORITHMS - 1 -> parallelOutput(vc, 0)

\* applyEffects(sample, channel): distortion, chorus, reverb.
applyEffects(sample) ==
    LET distorted ==
            IF distortionAmount_ > MIN_EFFECT_AMOUNT
            THEN tanh(TruncDiv(sample * (MAX_VOLUME + distortionAmount_
                                             * DISTORTION_GAIN_MULTIPLIER),
                               MAX_VOLUME))
            ELSE sample
        chorusMod ==
            TruncDiv(sin((TWO_PI * timeStep_) \div (2 * DEFAULT_SAMPLE_RATE))
                         * chorusAmount_ * CHORUS_DEPTH,
                     MAX_VOLUME * MAX_VOLUME)
        chorused ==
            IF chorusAmount_ > MIN_EFFECT_AMOUNT
            THEN TruncDiv(distorted * (MAX_VOLUME + chorusMod), MAX_VOLUME)
            ELSE distorted
    IN  IF reverbAmount_ > MIN_EFFECT_AMOUNT
        THEN TruncDiv(chorused * (MAX_VOLUME * MAX_VOLUME + reverbAmount_ * REVERB_GAIN),
                      MAX_VOLUME * MAX_VOLUME)
        ELSE chorused

\* Mutant: the phases are advanced before the algorithm is routed.
voiceOutputAfterPhase(v) ==
    LET u == envelopesUpdated(voices_[v])
    IN  IF ~voices_[v].active \/ allReleased(u) THEN 0
        ELSE applyEffects(processAlgorithm(channels_[u.channel].algorithm,
                                           phasesUpdated(u)))

\* The contribution of voice v to the sample of generateSample: nothing for
\* a voice that is inactive or deactivated by this tick.
voiceOutput(v) ==
    LET u == envelopesUpdated(voices_[v])
    IN  IF ~voices_[v].active \/ allReleased(u) THEN 0
        ELSE applyEffects(processAlgorithm(channels_[u.channel].algorithm, u))

pan(v) == IF v % 2 = 0 THEN PAN_LEFT ELSE PAN_RIGHT

\* leftSample and rightSample after the voice loop, voices 0 .. v.
RECURSIVE leftSample(_)
leftSample(v) ==
    IF v < 0 THEN 0
    ELSE leftSample(v - 1) + TruncDiv(voiceOutput(v) * (PAN_SCALE - pan(v)), MAX_VOLUME)

RECURSIVE rightSample(_)
rightSample(v) ==
    IF v < 0 THEN 0
    ELSE rightSample(v - 1) + TruncDiv(voiceOutput(v) * (PAN_SCALE + pan(v)), MAX_VOLUME)

\* static_cast<int16_t> of a value within the range of int.
int16(x) == ((x + 32768) % 65536) - 32768

\* Mutant: the sample sum is scaled by the master volume.
deliveredAtMasterVolume(sample) ==
    int16(clamp(TruncDiv(sample * masterVolume_ * AUDIO_SCALE, MAX_VOLUME * MAX_VOLUME),
                AUDIO_MIN_VALUE, AUDIO_MAX_VALUE))

\* Mutant: the product is converted without the clamp.
deliveredUnclamped(sample) == int16(TruncDiv(sample * AUDIO_SCALE, MAX_VOLUME))

\* The conversion of a sample sum at the end of generateSample.
delivered(sample) ==
    int16(clamp(TruncDiv(sample * AUDIO_SCALE, MAX_VOLUME),
                AUDIO_MIN_VALUE, AUDIO_MAX_VALUE))

\* The pair generateSample(left, right) returns in the current state.
left == delivered(leftSample(MAX_VOICES - 1))
right == delivered(rightSample(MAX_VOICES - 1))

\* setSampleRate(sampleRate): the time step, in sample periods of the
\* construction rate, and every operator's phase increment are recomputed.
setSampleRate(sampleRate) ==
    /\ SetterStep("setSampleRate", <<sampleRate>>)
    /\ sampleRate_' = sampleRate
    /\ timeStep_' = DEFAULT_SAMPLE_RATE \div sampleRate
    /\ voices_' = [v \in VoiceIdx |->
           [voices_[v] EXCEPT !.operators =
               [op \in OpIdx |->
                   [voices_[v].operators[op] EXCEPT !.phaseIncrement =
                       (TWO_PI * voices_[v].operators[op].frequency) \div sampleRate]]]]
    /\ UNCHANGED controls

\* The calls that shape the samples: notes, the sample rate, pitch bends up
\* an octave and downwards, the all-carriers algorithm, full effect amounts, a
\* raised modulation index, and the ticks.
NextAudio ==
    \/ /\ \E note \in Notes, velocity \in Velocities : noteOn(note, velocity)
       /\ UNCHANGED beyondEngine
    \/ /\ \E note \in Notes : noteOff(note)
       /\ UNCHANGED beyondEngine
    \/ /\ setSampleRate(MIN_SAMPLE_RATE)
       /\ UNCHANGED beyondEngine
    \/ /\ \E bend \in {-1, 2} : setPitchBend(0, bend)
       /\ UNCHANGED beyondEngine
    \/ /\ setAlgorithm(0, MAX_ALGORITHMS - 1)
       /\ UNCHANGED beyondEngine
    \/ /\ setOperatorModulationIndex(0, MAX_OPERATORS - 1, 3)
       /\ UNCHANGED beyondEngine
    \/ /\ setReverb(MAX_EFFECT_AMOUNT)
       /\ UNCHANGED beyondEngine
    \/ /\ setChorus(MAX_EFFECT_AMOUNT)
       /\ UNCHANGED beyondEngine
    \/ /\ setDistortion(MAX_EFFECT_AMOUNT)
       /\ UNCHANGED beyondEngine
    \/ /\ generateSample
       /\ UNCHANGED beyondEngine

SpecAudio == Init /\ [][NextAudio]_vars

\* ------------------------------------------------- algorithm router
\* The algorithm functions of algorithms.cpp name the six operators of a voice
\* by index, so they are modelled on router.voice, a voice of six operators,
\* whatever MAX_OPERATORS is.

\* processAlgorithm17: (2+6) -> 4 -> 5; operator 1 is computed and dropped.
processAlgorithm17(vc) ==
    LET ops == vc.operators
        mod2 == generateOperatorOutput(ops[1], 0)
        mod6 == generateOperatorOutput(ops[5], 0)
        mod4 == generateOperatorOutput(ops[3], mod2 + mod6)
        mod1 == generateOperatorOutput(ops[0], 0)
    IN  generateOperatorOutput(ops[4], mod4)

\* processAlgorithm18: (3+5+6) -> 2 -> 4; operator 1 is computed and dropped.
processAlgorithm18(vc) ==
    LET ops == vc.operators
        mod3 == generateOperatorOutput(ops[2], 0)
        mod5 == generateOperatorOutput(ops[4], 0)
        mod6 == generateOperatorOutput(ops[5], 0)
        mod2 == generateOperatorOutput(ops[1], mod3 + mod5 + mod6)
        mod1 == generateOperatorOutput(ops[0], 0)
    IN  generateOperatorOutput(ops[3], mod2)

\* processAlgorithm19: (3+6) -> 2 -> 4, 5 -> 4; operator 1 is computed and
\* dropped.
processAlgorithm19(vc) ==
    LET ops == vc.operators
        mod3 == generateOperatorOutput(ops[2], 0)
        mod6 == generateOperatorOutput(ops[5], 0)
        mod2 == generateOperatorOutput(ops[1], mod3 + mod6)
        mod5 == generateOperatorOutput(ops[4], 0)
        mod1 == generateOperatorOutput(ops[0], 0)
    IN  generateOperatorOutput(ops[3], mod2 + mod5)

\* processAlgorithm20: (2+6) -> 3 -> 4, 5 -> 4; operator 1 is computed and
\* dropped.
processAlgorithm20(vc) ==
    LET ops == vc.operators
        mod2 == generateOperatorOutput(ops[1], 0)
        mod6 == generateOperatorOutput(ops[5], 0)
        mod3 == generateOperatorOutput(ops[2], mod2 + mod6)
        mod5 == generateOperatorOutput(ops[4], 0)
        mod1 == generateOperatorOutput(ops[0], 0)
    IN  generateOperatorOutput(ops[3], mod3 + mod5)

\* processAlgorithm21: the same statements as processAlgorithm20.
processAlgorithm21(vc) ==
    LET ops == vc.operators
        mod2 == generateOperatorOutput(ops[1], 0)
        mod6 == generateOperatorOutput(ops[5], 0)
        mod3 == generateOperatorOutput(ops[2], mod2 + mod6)
        mod5 == generateOperatorOutput(ops[4], 0)
        mod1 == generateOperatorOutput(ops[0], 0)
    IN  generateOperatorOutput(ops[3], mod3 + mod5)

\* processAlgorithm22: (1+2+3+4+5) -> 6.
processAlgorithm22(vc) ==
    LET ops == vc.operators
        mod1 == generateOperatorOutput(ops[0], 0)
        mod2 == generateOperatorOutput(ops[1], 0)
        mod3 == generateOperatorOutput(ops[2], 0)
        mod4 == generateOperatorOutput(ops[3], 0)
        mod5 == generateOperatorOutput(ops[4], 0)
    IN  generateOperatorOutput(ops[5], mod1 + mod2 + mod3 + mod4 + mod5)

\* processAlgorithm23: the same statements as processAlgorithm22.
processAlgorithm23(vc) ==
    LET ops == vc.operators
        mod1 == generateOperatorOutput(ops[0], 0)
        mod2 == generateOperatorOutput(ops[1], 0)
        mod3 == generateOperatorOutput(ops[2], 0)
        mod4 == generateOperatorOutput(ops[3], 0)
        mod5 == generateOperatorOutput(ops[4], 0)
    IN  generateOperatorOutput(ops[5], mod1 + mod2 + mod3 + mod4 + mod5)

\* processAlgorithm28: (1+2+3+6) -> 4, and 5 as a direct carrier.
processAlgorithm28(vc) ==
    LET ops == vc.operators
        mod1 == generateOperatorOutput(ops[0], 0)
        mod2 == generateOperatorOutput(ops[1], 0)
        mod3 == generateOperatorOutput(ops[2], 0)
        mod6 == generateOperatorOutput(ops[5], 0)
        out4 == generateOperatorOutput(ops[3], mod1 + mod2 + mod3 + mod6)
        out5 == generateOperatorOutput(ops[4], 0)
    IN  out4 + out5

\* Mutant: algorithm 29 routed as the chain of algorithm 28.
processAlgorithm29Chained(vc) == processAlgorithm28(vc)

\* processAlgorithm29: the same statements as processAlgorithm22.
processAlgorithm29(vc) ==
    LET ops == vc.operators
        mod1 == generateOperatorOutput(ops[0], 0)
        mod2 == generateOperatorOutput(ops[1], 0)
        mod3 == generateOperatorOutput(ops[2], 0)
        mod4 == generateOperatorOutput(ops[3], 0)
        mod5 == generateOperatorOutput(ops[4], 0)
    IN  generateOperatorOutput(ops[5], mod1 + mod2 + mod3 + mod4 + mod5)

\* processAlgorithm30: the same statements as processAlgorithm22.
processAlgorithm30(vc) ==
    LET ops == vc.operators
        mod1 == generateOperatorOutput(ops[0], 0)
        mod2 == generateOperatorOutput(ops[1], 0)
        mod3 == generateOperatorOutput(ops[2], 0)
        mod4 == generateOperatorOutput(ops[3], 0)
        mod5 == generateOperatorOutput(ops[4], 0)
    IN  generateOperatorOutput(ops[5], mod1 + mod2 + mod3 + mod4 + mod5)

\* Mutant: algorithm 31 routed into operator 6 as algorithm 22.
processAlgorithm31IntoSix(vc) == processAlgorithm22(vc)

\* processAlgorithm31: the six operators as independent carriers.
processAlgorithm31(vc) ==
    LET ops == vc.operators
        out1 == generateOperatorOutput(ops[0], 0)
        out2 == generateOperatorOutput(ops[1], 0)
        out3 == generateOperatorOutput(ops[2], 0)
        out4 == generateOperatorOutput(ops[3], 0)
        out5 == generateOperatorOutput(ops[4], 0)
        out6 == generateOperatorOutput(ops[5], 0)
    IN  out1 + out2 + out3 + out4 + out5 + out6

\* The algorithms the router is run with.
RoutedAlgorithms == (17 .. 23) \cup (28 .. 31)

\* The switch over channels_[channel].algorithm in generateSample, for the
\* algorithms above.
routedOutput(a, vc) ==
    CASE a = 17 -> processAlgorithm17(vc)
      [] a = 18 -> processAlgorithm18(vc)
      [] a = 19 -> processAlgorithm19(vc)
      [] a = 20 -> processAlgorithm20(vc)
      [] a = 21 -> processAlgorithm21(vc)
      [] a = 22 -> processAlgorithm22(vc)
      [] a = 23 -> processAlgorithm23(vc)
      [] a = 28 -> processAlgorithm28(vc)
      [] a = 29 -> processAlgorithm29(vc)
      [] a = 30 -> processAlgorithm30(vc)
      [] a = 31 -> processAlgorithm31(vc)

\* The voices the router starts from: every operator sounding at full level,
\* at the first or the second phase step of its cycle.
RoutedVoices ==
    {[operators |-> [op \in RoutedOps |-> SoundingOperator(phases[op])]] :
        phases \in [RoutedOps -> {1, 2}]}

InitRouter ==
    /\ InitEngine
    /\ replay = NoReplay
    /\ InitThreading
    /\ audioIODevice_ = FALSE
    /\ InitStream
    /\ InitWindow
    /\ InitTracker
    /\ InitManager
    /\ router \in {[IdleRouter EXCEPT !.voice = vc] : vc \in RoutedVoices}

\* The algorithm switch and the phase loop of generateSample for the routed
\* voice: the algorithm's output is taken, then every operator's phase
\* advances.
routeVoice(a) ==
    /\ router' =
           [voice |-> [operators |-> [op \in RoutedOps |->
                          updateOperatorPhase22Bit(router.voice.operators[op])]],
            algorithm |-> a,
            voiceOutput |-> routedOutput(a, router.voice)]
    /\ UNCHANGED <<engine, timeSumShort, lastCall, calls, ctl, aud, replay,
                   threading, stream, window, tracker, manager>>

NextRouter ==
    \E a \in RoutedAlgorithms : routeVoice(a)

SpecRouter == InitRouter /\ [][NextRouter]_vars

\* ------------------------------------------------- two engine instances
\* Two instances share nothing (the engine has no static data), so the second
\* one is modelled after the first: the first instance is called and ticked,
\* then the second is constructed and given the recorded calls in their order.

\* What the caller passes in a call.
CallInput(call) ==
    [op |-> call.op, note |-> call.note,
     args |-> IF "args" \in DOMAIN call THEN call.args ELSE <<>>]

\* The calls made on both instances: notes, a preset, the all-carriers
\* algorithm, a pitch bend, full reverb, and ticks.
EngineCall ==
    \/ \E note \in Notes, velocity \in Velocities : noteOn(note, velocity)
    \/ \E note \in Notes : noteOff(note)
    \/ setPresetConfig(StaggeredPreset)
    \/ setAlgorithm(0, MAX_ALGORITHMS - 1)
    \/ setPitchBend(0, 2)
    \/ setReverb(MAX_EFFECT_AMOUNT)
    \/ generateSample

\* The call just made and, for a tick, the sample pair it returned are noted.
Recorded ==
    replay' = [replay EXCEPT
        !.trace = IF replay.run = 1 THEN Append(@, CallInput(lastCall')) ELSE @,
        !.pos = @ + 1,
        !.outputs = IF lastCall'.op = "generateSample"
                    THEN Append(@, <<left, right>>) ELSE @]

\* A call on the first instance.
FirstRun ==
    /\ replay.run = 1
    /\ Len(replay.trace) < MaxReplayCalls
    /\ EngineCall
    /\ Recorded
    /\ UNCHANGED <<router, threading, stream, window, tracker, manager>>

\* Mutant: the second instance takes over the preset template of the first.
constructSecondSharingPreset ==
    /\ replay.run = 1 /\ replay.trace # <<>>
    /\ replay' = [run |-> 2, trace |-> replay.trace, pos |-> 0, outputs |-> <<>>,
                  first |-> [engine |-> engine, outputs |-> replay.outputs]]
    /\ voices_' = [v \in VoiceIdx |-> DefaultVoice]
    /\ sampleRate_' = DEFAULT_SAMPLE_RATE
    /\ timeStep_' = DEFAULT_SAMPLE_RATE \div DEFAULT_SAMPLE_RATE
    /\ channels_' = [c \in ChannelIdx |-> DefaultChannel]
    /\ masterVolume_' = MAX_VOLUME
    /\ reverbAmount_' = MIN_EFFECT_AMOUNT
    /\ chorusAmount_' = MIN_EFFECT_AMOUNT
    /\ distortionAmount_' = MIN_EFFECT_AMOUNT
    /\ lastCall' = NoCall
    /\ calls' = 0
    /\ UNCHANGED <<currentPreset_, timeSumShort, ctl, aud, router, threading, stream, window, tracker, manager>>

\* The constructor of the second instance, with the sample rate of the first:
\* the state and the samples of the first are kept for the comparison.
constructSecond ==
    /\ replay.run = 1 /\ replay.trace # <<>>
    /\ replay' = [run |-> 2, trace |-> replay.trace, pos |-> 0, outputs |-> <<>>,
                  first |-> [engine |-> engine, outputs |-> replay.outputs]]
    /\ voices_' = [v \in VoiceIdx |-> DefaultVoice]
    /\ currentPreset_' = DefaultPreset
    /\ sampleRate_' = DEFAULT_SAMPLE_RATE
    /\ timeStep_' = DEFAULT_SAMPLE_RATE \div DEFAULT_SAMPLE_RATE
    /\ channels_' = [c \in ChannelIdx |-> DefaultChannel]
    /\ masterVolume_' = MAX_VOLUME
    /\ reverbAmount_' = MIN_EFFECT_AMOUNT
    /\ chorusAmount_' = MIN_EFFECT_AMOUNT
    /\ distortionAmount_' = MIN_EFFECT_AMOUNT
    /\ lastCall' = NoCall
    /\ calls' = 0
    /\ UNCHANGED <<timeSumShort, ctl, aud, router, threading, stream, window, tracker, manager>>

\* The next recorded call, made on the second instance.
SecondRun ==
    /\ replay.run = 2
    /\ replay.pos < Len(replay.trace)
    /\ EngineCall
    /\ CallInput(lastCall') = replay.trace[replay.pos + 1]
    /\ Recorded
    /\ UNCHANGED <<router, threading, stream, window, tracker, manager>>

NextReplay ==
    \/ FirstRun
    \/ constructSecond
    \/ SecondRun

SpecReplay == Init /\ [][NextReplay]_vars

\* ------------------------------------------------------ sample stream
\* FMSampleStream (fm.hpp:208-263): a queue guarded by a mutex, with a
\* condition variable readSample waits on.  A sample carries its int16 value
\* and, as history, who wrote it: the frame number and the side for the audio
\* thread, the position in the buffer for a writeSamples call.
Sample(value, frame, side) == [value |-> value, frame |-> frame, side |-> side]

\* std::unique_lock / std::lock_guard on mutex_: taken when free.
Free == <<>>
ReaderThread(r) == <<"reader", r>>
AudioThread(t) == <<"audio", t>>
WriterThread(op) == <<"writer", op>>

\* Mutant: the notification reaches no waiting reader.
notifyNobody(waiting) == waiting

\* condition_.notify_all(): no reader stays blocked in wait.
notify_all(waiting) == {}

\* Mutant: the newest sample is handed out.
frontNewest(queue) == queue[Len(queue)]

\* samples_.front()
front(queue) == Head(queue)

\* Mutant: pop drops the sample at the back.
popNewest(queue) == SubSeq(queue, 1, Len(queue) - 1)

\* samples_.pop()
pop(queue) == Tail(queue)

\* The queue after samples_.push(sample), and the history of the pushes.
pushed(sample) ==
    /\ samples_' = Append(samples_, sample)
    /\ written' = Append(written, sample)

\* What a step of a reader or of the writer of the stream leaves alone.
BesideStream ==
    <<engine, timeSumShort, lastCall, calls, ctl, aud, router, replay, threading,
      window,
      tracker, manager>>

\* The counts readSamples is called with.
ReadCounts == {1, 2}

\* readSample / readSamples, line 213 / 223: the lock is taken.
readLock(r, op, count) ==
    /\ ~terminated
    /\ readers[r].pc = "idle"
    /\ mutex_ = Free
    /\ mutex_' = ReaderThread(r)
    /\ readers' = [readers EXCEPT ![r] =
           [pc |-> "locked", op |-> op, count |-> count, got |-> <<>>,
            waited |-> FALSE]]
    /\ UNCHANGED <<samples_, condition_, written, taken>>
    /\ UNCHANGED BesideStream

\* readSample, lines 214-219: with the lock held the queue is tested; when it
\* is empty the reader waits, which releases the lock in the same step;
\* otherwise the front sample is taken and the call returns true.
readSampleTest(r) ==
    /\ readers[r].pc = "locked" /\ readers[r].op = "readSample"
    /\ mutex_' = Free
    /\ IF samples_ = <<>>
       THEN /\ condition_' = condition_ \cup {r}
            /\ readers' = [readers EXCEPT ![r].pc = "waiting", ![r].waited = TRUE]
            /\ UNCHANGED <<samples_, taken>>
       ELSE /\ readers' = [readers EXCEPT ![r].pc = "idle",
                                           ![r].got = <<front(samples_)>>]
            /\ taken' = Append(taken, front(samples_))
            /\ samples_' = pop(samples_)
            /\ UNCHANGED condition_
    /\ UNCHANGED written
    /\ UNCHANGED BesideStream

\* condition_.wait returns: after a notification, or spuriously.
readWake(r) ==
    /\ readers[r].pc = "waiting"
    /\ r \notin condition_
    /\ readers' = [readers EXCEPT ![r].pc = "woken"]
    /\ UNCHANGED <<samples_, mutex_, condition_, written, taken>>
    /\ UNCHANGED BesideStream

readWakeSpuriously(r) ==
    /\ readers[r].pc = "waiting"
    /\ r \in condition_
    /\ condition_' = condition_ \ {r}
    /\ readers' = [readers EXCEPT ![r].pc = "woken"]
    /\ UNCHANGED <<samples_, mutex_, written, taken>>
    /\ UNCHANGED BesideStream

\* condition_.wait takes the lock again before it returns to the loop test.
readRelock(r) ==
    /\ readers[r].pc = "woken"
    /\ mutex_ = Free
    /\ mutex_' = ReaderThread(r)
    /\ readers' = [readers EXCEPT ![r].pc = "locked"]
    /\ UNCHANGED <<samples_, condition_, written, taken>>
    /\ UNCHANGED BesideStream

\* The samples readSamples copies: front and pop while there are samples and
\* fewer than count have been read.
RECURSIVE drained(_, _)
drained(queue, count) ==
    IF count = 0 \/ queue = <<>> THEN <<>>
    ELSE <<front(queue)>> \o drained(pop(queue), count - 1)

RECURSIVE remaining(_, _)
remaining(queue, count) ==
    IF count = 0 \/ queue = <<>> THEN queue
    ELSE remaining(pop(queue), count - 1)

\* readSamples, lines 224-230: with the lock held up to count samples are
\* taken; the call returns their number without waiting.
readSamplesDrain(r) ==
    /\ readers[r].pc = "locked" /\ readers[r].op = "readSamples"
    /\ mutex_' = Free
    /\ readers' = [readers EXCEPT ![r].pc = "idle",
                                   ![r].got = drained(samples_, readers[r].count)]
    /\ taken' = taken \o drained(samples_, readers[r].count)
    /\ samples_' = remaining(samples_, readers[r].count)
    /\ UNCHANGED <<condition_, written>>
    /\ UNCHANGED BesideStream

\* writeSample(sample) by a thread other than the audio thread, lines
\* 234-237: the lock is taken (the first step), then the sample is pushed,
\* the readers are notified and the lock is released.
writeSampleLock ==
    /\ Len(written) < MaxWrites
    /\ mutex_ = Free
    /\ mutex_' = WriterThread("writeSample")
    /\ UNCHANGED <<samples_, condition_, readers, written, taken>>
    /\ UNCHANGED BesideStream

writeSamplePush ==
    /\ mutex_ = WriterThread("writeSample")
    /\ pushed(Sample(AUDIO_MAX_VALUE, Len(written) + 1, "sample"))
    /\ condition_' = notify_all(condition_)
    /\ mutex_' = Free
    /\ UNCHANGED <<readers, taken>>
    /\ UNCHANGED BesideStream

\* writeSamples(buffer, count), lines 241-246: the lock is taken (the first
\* step), then the samples of the buffer are pushed one after the other, the
\* readers are notified once and the lock is released.
writeSamplesLock ==
    /\ Len(written) < MaxWrites
    /\ mutex_ = Free
    /\ mutex_' = WriterThread("writeSamples")
    /\ UNCHANGED <<samples_, condition_, readers, written, taken>>
    /\ UNCHANGED BesideStream

writeSamplesPush ==
    /\ mutex_ = WriterThread("writeSamples")
    /\ LET buffer == <<Sample(AUDIO_MAX_VALUE, Len(written) + 1, "buffer"),
                       Sample(AUDIO_MIN_VALUE, Len(written) + 2, "buffer")>>
       IN  /\ samples_' = samples_ \o buffer
           /\ written' = written \o buffer
    /\ condition_' = notify_all(condition_)
    /\ mutex_' = Free
    /\ UNCHANGED <<readers, taken>>
    /\ UNCHANGED BesideStream

\* -------------------------------------------------------- audio thread
\* audioThreadFunction (fm.cpp:510-551), one statement group at a time.

\* The threads that have been created and have not returned from
\* audioThreadFunction.
LiveThreads == {t \in ThreadIds : audioThreads[t].pc \notin {"none", "exited"}}

\* Line 511: the loop test reads shouldStop_.
audLoopTest(t) ==
    /\ audioThreads[t].pc = "loop"
    /\ audioThreads' = [audioThreads EXCEPT ![t].pc =
           IF shouldStop_ THEN "exited" ELSE "scan"]
    /\ UNCHANGED <<engine, timeSumShort, lastCall, calls, ctl, aud, stream,
                   audioThreadRunning_, shouldStop_, audioThread_, audioIODevice_,
                   caller, terminated, deviceWrites, frames>>

\* Lines 512-521 and 538, 547: the scan for an active voice and the choice of
\* the branch.
audScan(t) ==
    /\ audioThreads[t].pc = "scan"
    /\ audioThreads' = [audioThreads EXCEPT
           ![t].pc = IF \E v \in VoiceIdx : voices_[v].active
                     THEN IF audioIODevice_ THEN "batch" ELSE "generate"
                     ELSE "sleep",
           ![t].i = 0,
           ![t].pending = <<>>]
    /\ UNCHANGED <<engine, timeSumShort, lastCall, calls, ctl, aud, stream,
                   audioThreadRunning_, shouldStop_, audioThread_, audioIODevice_,
                   caller, terminated, deviceWrites, frames>>

\* The frame generateSample returns in the current state, as the next frame.
Frame ==
    <<Sample(left, frames + 1, "left"), Sample(right, frames + 1, "right")>>

\* Lines 526-531: one turn of the batch loop, generateSample and two
\* push_back calls.
audBatchFrame(t) ==
    /\ audioThreads[t].pc = "batch"
    /\ audioThreads[t].i < BATCH_SIZE
    /\ generateSample
    /\ audioThreads' = [audioThreads EXCEPT
           ![t].i = @ + 1, ![t].pending = @ \o Frame]
    /\ frames' = frames + 1
    /\ UNCHANGED <<stream, audioThreadRunning_, shouldStop_, audioThread_,
                   audioIODevice_, caller, terminated, deviceWrites>>

\* Lines 533-537: the batch is written to the output device.
audBatchWrite(t) ==
    /\ audioThreads[t].pc = "batch"
    /\ audioThreads[t].i = BATCH_SIZE
    /\ deviceWrites' = Append(deviceWrites, audioThreads[t].pending)
    /\ audioThreads' = [audioThreads EXCEPT ![t].pc = "sleep", ![t].pending = <<>>]
    /\ UNCHANGED <<engine, timeSumShort, lastCall, calls, ctl, aud, stream,
                   audioThreadRunning_, shouldStop_, audioThread_, audioIODevice_,
                   caller, terminated, frames>>

\* generateSamples(stream), lines 350-425: the voice loop and the conversion
\* of the frame, which is then to be written.
audGenerateSamples(t) ==
    /\ audioThreads[t].pc = "generate"
    /\ generateSample
    /\ audioThreads' = [audioThreads EXCEPT ![t].pc = "write", ![t].pending = Frame]
    /\ frames' = frames + 1
    /\ UNCHANGED <<stream, audioThreadRunning_, shouldStop_, audioThread_,
                   audioIODevice_, caller, terminated, deviceWrites>>

\* generateSamples, lines 428-429: stream.writeSample(left), then
\* stream.writeSample(right).  writeSample, lines 234-237: the lock is taken
\* (the first step), then the sample is pushed, the readers are notified and
\* the lock is released.
audWriteLock(t) ==
    /\ audioThreads[t].pc = "write"
    /\ mutex_ = Free
    /\ mutex_' = AudioThread(t)
    /\ audioThreads' = [audioThreads EXCEPT ![t].pc = "writing"]
    /\ UNCHANGED <<engine, timeSumShort, lastCall, calls, ctl, aud,
                   samples_, condition_, readers, written, taken,
                   audioThreadRunning_, shouldStop_, audioThread_, audioIODevice_,
                   caller, terminated, deviceWrites, frames>>

audWritePush(t) ==
    /\ audioThreads[t].pc = "writing"
    /\ pushed(Head(audioThreads[t].pending))
    /\ condition_' = notify_all(condition_)
    /\ mutex_' = Free
    /\ audioThreads' = [audioThreads EXCEPT
           ![t].pending = Tail(@),
           ![t].pc = IF Tail(audioThreads[t].pending) = <<>> THEN "sleep" ELSE "write"]
    /\ UNCHANGED <<engine, timeSumShort, lastCall, calls, ctl, aud,
                   readers, taken,
                   audioThreadRunning_, shouldStop_, audioThread_, audioIODevice_,
                   caller, terminated, deviceWrites, frames>>

\* Lines 546, 548: the sleep ends and the loop test follows.
audSleep(t) ==
    /\ audioThreads[t].pc = "sleep"
    /\ audioThreads' = [audioThreads EXCEPT ![t].pc = "loop"]
    /\ UNCHANGED <<engine, timeSumShort, lastCall, calls, ctl, aud, stream,
                   audioThreadRunning_, shouldStop_, audioThread_, audioIODevice_,
                   caller, terminated, deviceWrites, frames>>

\* ----------------------------------------- startAudioThread, stopAudioThread
\* Both calls one statement at a time, on control thread c.

\* What a step of a control thread inside start or stop leaves alone.
CallerFrame ==
    UNCHANGED <<engine, timeSumShort, lastCall, calls, ctl, aud, stream,
                audioIODevice_, deviceWrites, frames>>

\* The control threads between the test of startAudioThread and its last
\* statement.
Starting == {c \in Callers : caller[c].pc \in {"start302", "start303", "start304"}}

\* startAudioThread, lines 298-300: the call returns when audioThreadRunning_
\* is set.
startTest(c) ==
    /\ caller[c].pc = "idle"
    /\ Cardinality({t \in ThreadIds : audioThreads[t].pc # "none"})
           + Cardinality(Starting) < MaxThreads
    /\ caller' = [caller EXCEPT ![c] =
           IF audioThreadRunning_
           THEN [pc |-> "idle", op |-> "startAudioThread", result |-> "running already"]
           ELSE [pc |-> "start302", op |-> "startAudioThread", result |-> "none"]]
    /\ UNCHANGED <<audioThreadRunning_, shouldStop_, audioThread_, audioThreads,
                   terminated>>
    /\ CallerFrame

\* Line 302
startClearStop(c) ==
    /\ caller[c].pc = "start302"
    /\ shouldStop_' = FALSE
    /\ caller' = [caller EXCEPT ![c].pc = "start303"]
    /\ UNCHANGED <<audioThreadRunning_, audioThread_, audioThreads, terminated>>
    /\ CallerFrame

\* Line 303
startSetRunning(c) ==
    /\ caller[c].pc = "start303"
    /\ audioThreadRunning_' = TRUE
    /\ caller' = [caller EXCEPT ![c].pc = "start304"]
    /\ UNCHANGED <<shouldStop_, audioThread_, audioThreads, terminated>>
    /\ CallerFrame

\* Line 304: a thread is created, which begins audioThreadFunction, and is
\* move-assigned to audioThread_; std::thread's assignment calls
\* std::terminate when audioThread_ is joinable.
startSpawn(c) ==
    /\ caller[c].pc = "start304"
    /\ LET t == CHOOSE n \in ThreadIds :
                   /\ audioThreads[n].pc = "none"
                   /\ \A m \in ThreadIds : audioThreads[m].pc = "none" => n <= m
       IN  /\ audioThreads' = [audioThreads EXCEPT ![t].pc = "loop"]
           /\ IF audioThread_ # 0
              THEN terminated' = TRUE /\ UNCHANGED audioThread_
              ELSE audioThread_' = t /\ UNCHANGED terminated
    /\ caller' = [caller EXCEPT ![c].pc = "idle", ![c].result = "started"]
    /\ UNCHANGED <<audioThreadRunning_, shouldStop_>>
    /\ CallerFrame

\* stopAudioThread, lines 313-315: the call returns when audioThreadRunning_
\* is not set.
stopTest(c) ==
    /\ caller[c].pc = "idle"
    /\ caller' = [caller EXCEPT ![c] =
           IF ~audioThreadRunning_
           THEN [pc |-> "idle", op |-> "stopAudioThread", result |-> "not running"]
           ELSE [pc |-> "stop317", op |-> "stopAudioThread", result |-> "none"]]
    /\ UNCHANGED <<audioThreadRunning_, shouldStop_, audioThread_, audioThreads,
                   terminated>>
    /\ CallerFrame

\* Line 317
stopRequest(c) ==
    /\ caller[c].pc = "stop317"
    /\ shouldStop_' = TRUE
    /\ caller' = [caller EXCEPT ![c].pc = "stop319"]
    /\ UNCHANGED <<audioThreadRunning_, audioThread_, audioThreads, terminated>>
    /\ CallerFrame

\* Line 319: join is called when audioThread_ is joinable.
stopJoinable(c) ==
    /\ caller[c].pc = "stop319"
    /\ caller' = [caller EXCEPT ![c].pc =
           IF audioThread_ # 0 THEN "stop320" ELSE "stop323"]
    /\ UNCHANGED <<audioThreadRunning_, shouldStop_, audioThread_, audioThreads,
                   terminated>>
    /\ CallerFrame

\* Mutant: the call goes on without waiting for the thread.
stopJoinDetached(c) ==
    /\ caller[c].pc = "stop320"
    /\ audioThread_' = 0
    /\ caller' = [caller EXCEPT ![c].pc = "stop323"]
    /\ UNCHANGED <<audioThreadRunning_, shouldStop_, audioThreads, terminated>>
    /\ CallerFrame

\* Line 320: join returns once the thread has returned from
\* audioThreadFunction, and audioThread_ is no longer joinable; join on a
\* thread another caller has joined meanwhile throws, which nothing catches.
stopJoin(c) ==
    /\ caller[c].pc = "stop320"
    /\ IF audioThread_ = 0
       THEN /\ terminated' = TRUE
            /\ caller' = [caller EXCEPT ![c].pc = "stop323"]
            /\ UNCHANGED audioThread_
       ELSE /\ audioThreads[audioThread_].pc = "exited"
            /\ audioThread_' = 0
            /\ caller' = [caller EXCEPT ![c].pc = "stop323"]
            /\ UNCHANGED terminated
    /\ UNCHANGED <<audioThreadRunning_, shouldStop_, audioThreads>>
    /\ CallerFrame

\* Line 323
stopClearRunning(c) ==
    /\ caller[c].pc = "stop323"
    /\ audioThreadRunning_' = FALSE
    /\ caller' = [caller EXCEPT ![c].pc = "idle", ![c].result = "stopped"]
    /\ UNCHANGED <<shouldStop_, audioThread_, audioThreads, terminated>>
    /\ CallerFrame

\* Control threads that call startAudioThread and stopAudioThread at any
\* time, each call beginning when the thread's previous one has returned, on
\* an engine without a sounding voice.  Nothing runs after std::terminate.
NextStartStop ==
    \/ /\ ~terminated
       /\ \E c \in Callers : startTest(c)
       /\ UNCHANGED <<router, replay, window, tracker, manager>>
    \/ /\ ~terminated
       /\ \E c \in Callers : startClearStop(c)
       /\ UNCHANGED <<router, replay, window, tracker, manager>>
    \/ /\ ~terminated
       /\ \E c \in Callers : startSetRunning(c)
       /\ UNCHANGED <<router, replay, window, tracker, manager>>
    \/ /\ ~terminated
       /\ \E c \in Callers : startSpawn(c)
       /\ UNCHANGED <<router, replay, window, tracker, manager>>
    \/ /\ ~terminated
       /\ \E c \in Callers : stopTest(c)
       /\ UNCHANGED <<router, replay, window, tracker, manager>>
    \/ /\ ~terminated
       /\ \E c \in Callers : stopRequest(c)
       /\ UNCHANGED <<router, replay, window, tracker, manager>>
    \/ /\ ~terminated
       /\ \E c \in Callers : stopJoinable(c)
       /\ UNCHANGED <<router, replay, window, tracker, manager>>
    \/ /\ ~terminated
       /\ \E c \in Callers : stopJoin(c)
       /\ UNCHANGED <<router, replay, window, tracker, manager>>
    \/ /\ ~terminated
       /\ \E c \in Callers : stopClearRunning(c)
       /\ UNCHANGED <<router, replay, window, tracker, manager>>
    \/ /\ ~terminated
       /\ \E t \in ThreadIds : audLoopTest(t)
       /\ UNCHANGED <<router, replay, window, tracker, manager>>
    \/ /\ ~terminated
       /\ \E t \in ThreadIds : audScan(t)
       /\ UNCHANGED <<router, replay, window, tracker, manager>>
    \/ /\ ~terminated
       /\ \E t \in ThreadIds : audSleep(t)
       /\ UNCHANGED <<router, replay, window, tracker, manager>>

SpecStartStop == Init /\ [][NextStartStop]_vars

\* The engine after construction, with the output device setupAudio opened
\* (audioSink_->start(), fm.cpp:120) or without one.
InitThread ==
    /\ InitEngine
    /\ router = IdleRouter
    /\ replay = NoReplay
    /\ InitThreading
    /\ audioIODevice_ \in BOOLEAN
    /\ InitStream
    /\ InitWindow
    /\ InitTracker
    /\ InitManager

\* The control thread of the window (window/main.cpp): its calls follow one
\* another.
GuiThread == 1

\* One control thread that plays notes and starts and stops the audio
\* thread, and the audio threads it started.
NextThread ==
    \/ /\ caller[GuiThread].pc = "idle" /\ calls < MaxThreadCalls
       /\ noteOn(MIDI_A4_NOTE, MAX_VOLUME)
       /\ UNCHANGED beyondEngine
    \/ /\ caller[GuiThread].pc = "idle" /\ calls < MaxThreadCalls
       /\ noteOff(MIDI_A4_NOTE)
       /\ UNCHANGED beyondEngine
    \/ /\ startTest(GuiThread)
       /\ UNCHANGED <<router, replay, window, tracker, manager>>
    \/ /\ startClearStop(GuiThread)
       /\ UNCHANGED <<router, replay, window, tracker, manager>>
    \/ /\ startSetRunning(GuiThread)
       /\ UNCHANGED <<router, replay, window, tracker, manager>>
    \/ /\ startSpawn(GuiThread)
       /\ UNCHANGED <<router, replay, window, tracker, manager>>
    \/ /\ stopTest(GuiThread)
       /\ UNCHANGED <<router, replay, window, tracker, manager>>
    \/ /\ stopRequest(GuiThread)
       /\ UNCHANGED <<router, replay, window, tracker, manager>>
    \/ /\ stopJoinable(GuiThread)
       /\ UNCHANGED <<router, replay, window, tracker, manager>>
    \/ /\ stopJoin(GuiThread)
       /\ UNCHANGED <<router, replay, window, tracker, manager>>
    \/ /\ stopClearRunning(GuiThread)
       /\ UNCHANGED <<router, replay, window, tracker, manager>>
    \/ /\ \E t \in ThreadIds : audLoopTest(t)
       /\ UNCHANGED <<router, replay, window, tracker, manager>>
    \/ /\ \E t \in ThreadIds : audScan(t)
       /\ UNCHANGED <<router, replay, window, tracker, manager>>
    \/ /\ \E t \in ThreadIds : audBatchFrame(t)
       /\ UNCHANGED <<router, replay, window, tracker, manager>>
    \/ /\ \E t \in ThreadIds : audBatchWrite(t)
       /\ UNCHANGED <<router, replay, window, tracker, manager>>
    \/ /\ \E t \in ThreadIds : audGenerateSamples(t)
       /\ UNCHANGED <<router, replay, window, tracker, manager>>
    \/ /\ \E t \in ThreadIds : audWriteLock(t)
       /\ UNCHANGED <<router, replay, window, tracker, manager>>
    \/ /\ \E t \in ThreadIds : audWritePush(t)
       /\ UNCHANGED <<router, replay, window, tracker, manager>>
    \/ /\ \E t \in ThreadIds : audSleep(t)
       /\ UNCHANGED <<router, replay, window, tracker, manager>>

SpecThread == InitThread /\ [][NextThread]_vars

\* The reader of the stream the audio thread writes to.
StreamReader == 1

\* The window's thread plays a note and starts the audio thread, which
\* writes its frames to the sample stream (no output device), while a reader
\* calls readSample and readSamples at any time.
NextStream ==
    \/ /\ caller[GuiThread].pc = "idle" /\ calls < MaxThreadCalls
       /\ noteOn(MIDI_A4_NOTE, MAX_VOLUME)
       /\ UNCHANGED beyondEngine
    \/ /\ startTest(GuiThread)
       /\ UNCHANGED <<router, replay, window, tracker, manager>>
    \/ /\ startClearStop(GuiThread)
       /\ UNCHANGED <<router, replay, window, tracker, manager>>
    \/ /\ startSetRunning(GuiThread)
       /\ UNCHANGED <<router, replay, window, tracker, manager>>
    \/ /\ startSpawn(GuiThread)
       /\ UNCHANGED <<router, replay, window, tracker, manager>>
    \/ /\ \E t \in ThreadIds : audLoopTest(t)
       /\ UNCHANGED <<router, replay, window, tracker, manager>>
    \/ /\ \E t \in ThreadIds : audScan(t)
       /\ UNCHANGED <<router, replay, window, tracker, manager>>
    \/ /\ frames < MaxStreamFrames
       /\ \E t \in ThreadIds : audGenerateSamples(t)
       /\ UNCHANGED <<router, replay, window, tracker, manager>>
    \/ /\ \E t \in ThreadIds : audWriteLock(t)
       /\ UNCHANGED <<router, replay, window, tracker, manager>>
    \/ /\ \E t \in ThreadIds : audWritePush(t)
       /\ UNCHANGED <<router, replay, window, tracker, manager>>
    \/ /\ \E t \in ThreadIds : audSleep(t)
       /\ UNCHANGED <<router, replay, window, tracker, manager>>
    \/ readLock(StreamReader, "readSample", 1)
    \/ \E count \in ReadCounts : readLock(StreamReader, "readSamples", count)
    \/ readSampleTest(StreamReader)
    \/ readWake(StreamReader)
    \/ readWakeSpuriously(StreamReader)
    \/ readRelock(StreamReader)
    \/ readSamplesDrain(StreamReader)

SpecStream == Init /\ [][NextStream]_vars

\* A stream by itself: a thread that writes with writeSample and
\* writeSamples, and readers that call readSample and readSamples, all at
\* any time.
NextQueue ==
    \/ writeSampleLock
    \/ writeSamplePush
    \/ writeSamplesLock
    \/ writeSamplesPush
    \/ \E r \in Readers : readLock(r, "readSample", 1)
    \/ \E r \in Readers, count \in ReadCounts : readLock(r, "readSamples", count)
    \/ \E r \in Readers : readSampleTest(r)
    \/ \E r \in Readers : readWake(r)
    \/ \E r \in Readers : readWakeSpuriously(r)
    \/ \E r \in Readers : readRelock(r)
    \/ \E r \in Readers : readSamplesDrain(r)

\* A thread inside a call is scheduled in the end, and a reader that asks
\* for mutex_ again and again gets it in the end; a wait need not end
\* spuriously, and no thread is bound to begin a call.
FairQueue ==
    /\ \A r \in Readers :
          /\ WF_vars(readSampleTest(r))
          /\ WF_vars(readWake(r))
          /\ SF_vars(readRelock(r))
          /\ WF_vars(readSamplesDrain(r))
    /\ WF_vars(writeSamplePush)
    /\ WF_vars(writeSamplesPush)

SpecQueue == Init /\ [][NextQueue]_vars /\ FairQueue

\* ---------------------------------------------------------------- window
\* The synthesizer tabs of MainWindow (window/main.cpp).  Each synthesizer is
\* an engine of its own, kept here by what the window's handlers decide: its
\* audio thread's flag, the notes that sound and the frames its thread
\* rendered.

\* What a handler of the window leaves alone.
BesideWindow ==
    <<engine, timeSumShort, lastCall, calls, ctl, aud, router, replay,
      threading, stream, tracker, manager>>

\* synthesizers_[index], the vector counted from 0.
synthesizerAt(index) == synthesizers_[index + 1]

\* synthesizers_.erase(synthesizers_.begin() + index)
erased(index) ==
    SubSeq(synthesizers_, 1, index) \o
        SubSeq(synthesizers_, index + 2, Len(synthesizers_))

\* onAddSynthesizerTab, lines 190-205: a synthesizer is constructed and
\* appended, a tab is added and made current (which calls
\* onSynthesizerTabChanged with the same index), and the index is stored.
onAddSynthesizerTab ==
    /\ Len(synthesizers_) < MaxTabs
    /\ synthesizers_' = Append(synthesizers_, NewSynthesizer)
    /\ tabCount' = tabCount + 1
    /\ currentSynthesizerIndex_' = tabCount
    /\ windowCall' = "onAddSynthesizerTab"
    /\ UNCHANGED BesideWindow

\* onSynthesizerTabChanged(index), lines 215-218, for the tab the user
\* selects.
onSynthesizerTabChanged(index) ==
    /\ index < tabCount
    /\ currentSynthesizerIndex_' = index
    /\ windowCall' = "onSynthesizerTabChanged"
    /\ UNCHANGED <<synthesizers_, tabCount>>
    /\ UNCHANGED BesideWindow

\* onSynthesizerTabCloseRequested(index), lines 165-182: nothing happens on
\* the last tab; otherwise the synthesizer is erased (its destructor stops
\* its audio thread), the tab is removed, which makes the tab widget report
\* the tab that is current afterwards, and the index is brought into range.
onSynthesizerTabCloseRequested(index) ==
    /\ index < tabCount
    /\ windowCall' = "onSynthesizerTabCloseRequested"
    /\ IF tabCount <= 1
       THEN UNCHANGED <<synthesizers_, tabCount, currentSynthesizerIndex_>>
       ELSE /\ synthesizers_' =
                  IF index < Len(synthesizers_) THEN erased(index) ELSE synthesizers_
            /\ tabCount' = tabCount - 1
            /\ \E reported \in {currentSynthesizerIndex_} \cup (0 .. tabCount - 2) :
                  currentSynthesizerIndex_' =
                      IF reported >= Len(synthesizers_')
                      THEN Len(synthesizers_') - 1
                      ELSE reported
    /\ UNCHANGED BesideWindow

\* onKeyboardKeyPressed(note), lines 134-139: noteOn on the current
\* synthesizer.
onKeyboardKeyPressed(note) ==
    /\ windowCall' = "onKeyboardKeyPressed"
    /\ synthesizers_' =
           IF currentSynthesizerIndex_ < Len(synthesizers_)
           THEN [synthesizers_ EXCEPT ![currentSynthesizerIndex_ + 1].sounding =
                    @ \cup {note}]
           ELSE synthesizers_
    /\ UNCHANGED <<currentSynthesizerIndex_, tabCount>>
    /\ UNCHANGED BesideWindow

\* onKeyboardKeyReleased(note), lines 149-154: noteOff on the current
\* synthesizer.
onKeyboardKeyReleased(note) ==
    /\ windowCall' = "onKeyboardKeyReleased"
    /\ synthesizers_' =
           IF currentSynthesizerIndex_ < Len(synthesizers_)
           THEN [synthesizers_ EXCEPT ![currentSynthesizerIndex_ + 1].sounding =
                    @ \ {note}]
           ELSE synthesizers_
    /\ UNCHANGED <<currentSynthesizerIndex_, tabCount>>
    /\ UNCHANGED BesideWindow

\* The audio thread of synthesizer index renders a frame: it exists when the
\* synthesizer was started and generates while a voice is active
\* (audioThreadFunction, fm.cpp:510-551).
rendersFrame(index) ==
    /\ index < Len(synthesizers_)
    /\ synthesizerAt(index).audioThreadRunning_
    /\ synthesizerAt(index).sounding # {}
    /\ synthesizerAt(index).rendered < MaxRendered
    /\ synthesizers_' = [synthesizers_ EXCEPT ![index + 1].rendered = @ + 1]
    /\ UNCHANGED <<currentSynthesizerIndex_, tabCount, windowCall>>
    /\ UNCHANGED BesideWindow

\* The tabs of the window by index.
TabIndexes == 0 .. MaxTabs - 1

\* The handlers run on the window's thread, one after the other, and the
\* audio threads of the synthesizers run beside them.
NextWindow ==
    \/ onAddSynthesizerTab
    \/ \E index \in TabIndexes : onSynthesizerTabChanged(index)
    \/ \E index \in TabIndexes : onSynthesizerTabCloseRequested(index)
    \/ onKeyboardKeyPressed(MIDI_A4_NOTE)
    \/ onKeyboardKeyReleased(MIDI_A4_NOTE)
    \/ \E index \in TabIndexes : rendersFrame(index)

SpecWindow == Init /\ [][NextWindow]_vars

\* Two instances given the same notes and ticks, with any velocities.  The
\* velocity of a noteOn call is not part of the recorded call (CallInput), so
\* the second instance is given the calls of the first with velocities of its
\* own.
NoteVelocities == {MAX_VOLUME \div 2, MAX_VOLUME}

VelocityCall ==
    \/ \E note \in Notes, velocity \in NoteVelocities : noteOn(note, velocity)
    \/ \E note \in Notes : noteOff(note)
    \/ generateSample

FirstVelocityRun ==
    /\ replay.run = 1
    /\ Len(replay.trace) < MaxReplayCalls
    /\ VelocityCall
    /\ Recorded
    /\ UNCHANGED <<router, threading, stream, window, tracker, manager>>

SecondVelocityRun ==
    /\ replay.run = 2
    /\ replay.pos < Len(replay.trace)
    /\ VelocityCall
    /\ CallInput(lastCall') = replay.trace[replay.pos + 1]
    /\ Recorded
    /\ UNCHANGED <<router, threading, stream, window, tracker, manager>>

NextVelocity ==
    \/ FirstVelocityRun
    \/ constructSecond
    \/ SecondVelocityRun

SpecVelocity == Init /\ [][NextVelocity]_vars

\* Two instances given the same notes and ticks, each with setMasterVolume
\* calls of its own: these calls are not recorded, so the second instance is
\* given the calls of the first and differs from it in its setMasterVolume
\* calls only.
MasterVolumes == {MIN_VOLUME - 1, MAX_VOLUME \div 2, MAX_VOLUME + 1}

VolumeCall ==
    \/ noteOn(MIDI_A4_NOTE, MAX_VOLUME)
    \/ noteOff(MIDI_A4_NOTE)
    \/ generateSample

FirstVolumeRun ==
    /\ replay.run = 1
    /\ Len(replay.trace) < MaxReplayCalls
    /\ VolumeCall
    /\ Recorded
    /\ UNCHANGED <<router, threading, stream, window, tracker, manager>>

SecondVolumeRun ==
    /\ replay.run = 2
    /\ replay.pos < Len(replay.trace)
    /\ VolumeCall
    /\ CallInput(lastCall') = replay.trace[replay.pos + 1]
    /\ Recorded
    /\ UNCHANGED <<router, threading, stream, window, tracker, manager>>

NextVolume ==
    \/ FirstVolumeRun
    \/ constructSecond
    \/ SecondVolumeRun
    \/ /\ \E volume \in MasterVolumes : setMasterVolume(volume)
       /\ UNCHANGED beyondEngine

SpecVolume == Init /\ [][NextVolume]_vars

\* A note, ticks, and the three per-channel setters called for the channel of
\* the voices (0) and for two of the other channels.
SetterChannels == {0, 1, MAX_CHANNELS - 1}

NextChannels ==
    \/ /\ noteOn(MIDI_A4_NOTE, MAX_VOLUME)
       /\ UNCHANGED beyondEngine
    \/ /\ generateSample
       /\ UNCHANGED beyondEngine
    \/ /\ \E channel \in SetterChannels : setAlgorithm(channel, MAX_ALGORITHMS - 1)
       /\ UNCHANGED beyondEngine
    \/ /\ \E channel \in SetterChannels : setPitchBend(channel, 2)
       /\ UNCHANGED beyondEngine
    \/ /\ \E channel \in SetterChannels : setModulationWheel(channel, 5)
       /\ UNCHANGED beyondEngine

SpecChannels == Init /\ [][NextChannels]_vars

\* ------------------------------------------------- tracker (window/tracker.cpp)
\* What a handler of the tracker widget leaves alone.
BesideTracker ==
    <<engine, timeSumShort, lastCall, calls, ctl, aud, router, replay, threading,
      stream, window, manager>>

\* The timer interval of sixteenth notes at the given tempo, in milliseconds.
interval(tempo) == 60000 \div (tempo * 4)

\* play(), lines 651-667: nothing when already playing; else playback starts
\* at step 0 and the timer is started.
play ==
    /\ trackerCall' = "play"
    /\ IF playing_
       THEN UNCHANGED <<playing_, paused_, currentStep_, playbackTimer_, triggered>>
       ELSE /\ playing_' = TRUE
            /\ paused_' = FALSE
            /\ currentStep_' = 0
            /\ playbackTimer_' = interval(tempo_)
            /\ triggered' = <<>>
    /\ UNCHANGED <<currentPattern_, patterns_, tempo_>>
    /\ UNCHANGED BesideTracker

\* stop(), lines 675-686.
stop ==
    /\ trackerCall' = "stop"
    /\ playing_' = FALSE
    /\ paused_' = FALSE
    /\ currentStep_' = 0
    /\ playbackTimer_' = 0
    /\ triggered' = <<>>
    /\ UNCHANGED <<currentPattern_, patterns_, tempo_>>
    /\ UNCHANGED BesideTracker

\* pause(), lines 694-709: nothing when not playing; else the pause flag is
\* toggled and the timer stopped or started again.
pause ==
    /\ trackerCall' = "pause"
    /\ IF ~playing_
       THEN UNCHANGED <<paused_, playbackTimer_>>
       ELSE /\ paused_' = ~paused_
            /\ playbackTimer_' = IF paused_' THEN 0 ELSE interval(tempo_)
    /\ UNCHANGED <<playing_, currentStep_, currentPattern_, patterns_, tempo_,
                   triggered>>
    /\ UNCHANGED BesideTracker

\* onPlayClicked, lines 761-767, the only caller of play(): the play button
\* pauses while playing.
onPlayClicked == IF playing_ THEN pause ELSE play

\* qBound(min, value, max) of QtGlobal
qBound(lower, value, upper) ==
    IF value < lower THEN lower ELSE IF value > upper THEN upper ELSE value

\* setTempo, lines 719-730: a running timer is started again with the new
\* interval.
setTempo(bpm) ==
    /\ trackerCall' = "setTempo"
    /\ tempo_' = qBound(MIN_TEMPO, bpm, MAX_TEMPO)
    /\ playbackTimer_' = IF playing_ /\ ~paused_ THEN interval(tempo_') ELSE playbackTimer_
    /\ UNCHANGED <<playing_, paused_, currentStep_, currentPattern_, patterns_,
                   triggered>>
    /\ UNCHANGED BesideTracker

\* setCurrentPattern, lines 637-643.
setCurrentPattern(index) ==
    /\ trackerCall' = "setCurrentPattern"
    /\ currentPattern_' = IF index >= 0 /\ index < Len(patterns_)
                          THEN index ELSE currentPattern_
    /\ UNCHANGED <<playing_, paused_, currentStep_, patterns_, tempo_,
                   playbackTimer_, triggered>>
    /\ UNCHANGED BesideTracker

\* addPattern, lines 570-577: a pattern of DEFAULT_STEPS steps is appended and
\* selected in the combo box, whose signal calls setCurrentPattern with it.
addPattern ==
    /\ trackerCall' = "addPattern"
    /\ Len(patterns_) < MaxPatterns
    /\ patterns_' = Append(patterns_, DEFAULT_STEPS)
    /\ currentPattern_' = Len(patterns_') - 1
    /\ UNCHANGED <<playing_, paused_, currentStep_, tempo_, playbackTimer_, triggered>>
    /\ UNCHANGED BesideTracker

\* removePattern, lines 587-601: the last pattern is never removed; the
\* current index is brought back into the range.  The combo box, which loses
\* the item, may before that have selected the neighbouring item through
\* setCurrentPattern.
removePattern(index) ==
    /\ trackerCall' = "removePattern"
    /\ IF index < 0 \/ index >= Len(patterns_) \/ Len(patterns_) <= 1
       THEN UNCHANGED <<patterns_, currentPattern_>>
       ELSE /\ patterns_' = SubSeq(patterns_, 1, index) \o
                               SubSeq(patterns_, index + 2, Len(patterns_))
            /\ \E selected \in {currentPattern_, currentPattern_ - 1} :
                  /\ selected >= 0
                  /\ currentPattern_' = IF selected >= Len(patterns_')
                                        THEN Len(patterns_') - 1 ELSE selected
    /\ UNCHANGED <<playing_, paused_, currentStep_, tempo_, playbackTimer_, triggered>>
    /\ UNCHANGED BesideTracker

\* Mutant: the position wraps one step late.
advancedPastTheEnd(step) ==
    IF currentPattern_ < Len(patterns_)
    THEN IF step + 1 > patterns_[currentPattern_ + 1] THEN 0 ELSE step + 1
    ELSE step + 1

\* onPlaybackTimer, lines 834-840: currentStep_++, then the wrap at the step
\* count of the current pattern.
advanced(step) ==
    IF currentPattern_ < Len(patterns_)
    THEN IF step + 1 >= patterns_[currentPattern_ + 1] THEN 0 ELSE step + 1
    ELSE step + 1

\* onPlaybackTimer, lines 827-843, called by the running timer (line 289):
\* nothing unless playing and not paused; else the current step is triggered
\* and the position advances.
onPlaybackTimer ==
    /\ trackerCall' = "onPlaybackTimer"
    /\ playbackTimer_ > 0
    /\ Len(triggered) < MaxTriggered
    /\ IF ~playing_ \/ paused_
       THEN UNCHANGED <<currentStep_, triggered>>
       ELSE /\ triggered' = Append(triggered, currentStep_)
            /\ currentStep_' = advanced(currentStep_)
    /\ UNCHANGED <<playing_, paused_, currentPattern_, patterns_, tempo_,
                   playbackTimer_>>
    /\ UNCHANGED BesideTracker

\* The tempos the slider is moved to.
Tempos == {MIN_TEMPO - 1, 90, DEFAULT_TEMPO, MAX_TEMPO + 1}

NextTracker ==
    \/ stop
    \/ pause
    \/ onPlayClicked
    \/ \E bpm \in Tempos : setTempo(bpm)
    \/ \E index \in -1 .. MaxPatterns : setCurrentPattern(index)
    \/ addPattern
    \/ \E index \in -1 .. MaxPatterns : removePattern(index)
    \/ onPlaybackTimer

SpecTracker == Init /\ [][NextTracker]_vars

\* ------------------------------------------------- manager (FMSynthesizerManager)
\* The manager has been given the engine as its one synthesizer.
\* What a call on the manager leaves alone beside the engine.
BesideManager == <<router, replay, threading, stream, window, tracker>>

\* What a read beyond the bounds of an array of volumes may return.
Indeterminate == {MIN_VOLUME, MAX_VOLUME \div 2, MAX_VOLUME}

\* The values the read of channelVolumes_[channel] may return.
channelVolumeRead(channel) ==
    IF channel \in MidiChannelIdx THEN {channelVolumes_[channel]} ELSE Indeterminate

\* A call on the manager is noted with the index it read channelVolumes_ at.
ManagerStep(name, channel, read) ==
    /\ managerCall.n < MaxManagerCalls
    /\ managerCall' = [op |-> name, channel |-> channel, n |-> managerCall.n + 1,
                       read |-> read]

\* FMSynthesizerManager::noteOn, lines 832-838: the note is forwarded with
\* the velocity scaled by channelVolumes_[channel], read without a test of
\* the index.
managerNoteOn(channel, note, velocity) ==
    /\ ManagerStep("noteOn", channel, <<channel>>)
    /\ \E volume \in channelVolumeRead(channel) :
          noteOn(note, TruncDiv(velocity * volume, MAX_VOLUME))
    /\ UNCHANGED <<channelVolumes_, channelModulations_>>
    /\ UNCHANGED BesideManager

\* FMSynthesizerManager::noteOff, lines 840-846: the note-off is forwarded,
\* the channel is not looked at.
managerNoteOff(channel, note) ==
    /\ ManagerStep("noteOff", channel, <<>>)
    /\ noteOff(note)
    /\ UNCHANGED <<channelVolumes_, channelModulations_>>
    /\ UNCHANGED BesideManager

\* FMSynthesizerManager::controlChange, lines 848-871: a channel outside
\* [0, MAX_MIDI_CHANNELS) ends the call; the modulation wheel is stored and
\* forwarded, the volume is stored.
controlChange(channel, controller, value) ==
    /\ ManagerStep("controlChange", channel, <<>>)
    /\ IF channel \in MidiChannelIdx /\ controller = MODULATION_WHEEL
       THEN /\ channelModulations_' = [channelModulations_ EXCEPT ![channel] = value]
            /\ setModulationWheel(channel, value)
            /\ UNCHANGED channelVolumes_
       ELSE /\ channelVolumes_' =
                   IF channel \in MidiChannelIdx /\ controller = VOLUME
                   THEN [channelVolumes_ EXCEPT ![channel] = value]
                   ELSE channelVolumes_
            /\ UNCHANGED <<engine, timeSumShort, lastCall, calls, ctl, aud,
                           channelModulations_>>
    /\ UNCHANGED BesideManager

\* The channels the manager is called with.
MidiChannelArgs == {-1, 0, MAX_MIDI_CHANNELS - 1, MAX_MIDI_CHANNELS}

NextManager ==
    \/ \E channel \in MidiChannelArgs, note \in Notes :
          managerNoteOn(channel, note, MAX_VOLUME)
    \/ \E channel \in MidiChannelArgs, note \in Notes : managerNoteOff(channel, note)
    \/ \E channel \in MidiChannelArgs, controller \in {MODULATION_WHEEL, VOLUME, EXPRESSION} :
          controlChange(channel, controller, MAX_VOLUME \div 2)

SpecManager == Init /\ [][NextManager]_vars

\* ------------------------------------------------------------ claims
\* The step is a call of the given operation (every step records its call).
IsCall(name) == lastCall'.op = name

Held(note) == {v \in VoiceIdx : voices_[v].active /\ voices_[v].note = note}
AllActive == \A v \in VoiceIdx : voices_[v].active
Reclaimed(v) == ~voices_[v].active /\ voices_[v].note # -1

\* The audio thread is about to read or write the operators of voice v.
AudInsideVoice(v) == aud.pc \in {"env", "check", "phase"} /\ aud.voice = v
\* noteOn has written some but not all operators of voice v.
PartlyWritten(v) == ctl.pc = "ops" /\ ctl.voice = v /\ ctl.op > 0

\* C1: for every interleaving of noteOn with the audio thread's tick, the tick
\* never works on an active voice of which noteOn has written some operators
\* and not yet the others.
C1_TickNeverSeesPartlyWrittenVoice ==
    \A v \in VoiceIdx :
        ~(AudInsideVoice(v) /\ voices_[v].active /\ PartlyWritten(v))

\* The phase of o2 is that of o advanced by the increment of o's frequency.
PhaseAdvancedByFrequency(o, o2) ==
    LET acc == o.phaseAccumulator
               + calculatePhaseIncrement22Bit(o2.frequency) * o2.pitchBend
    IN  o2.phaseAccumulator = IF acc >= TWO_PI THEN acc - TWO_PI ELSE acc

LowestInactive ==
    IF AllActive THEN -1
    ELSE CHOOSE v \in VoiceIdx :
            /\ ~voices_[v].active
            /\ \A w \in VoiceIdx : w < v => voices_[w].active

\* C3: findFreeVoice is the lowest-index inactive voice (none only when every
\* voice is active), and noteOn(n, v) with an inactive voice allocates that
\* voice: it becomes active with note n, each of its operators is in ATTACK
\* with envelopeTime 0 and envelopeLevel 0 and carries the preset template's
\* parameters, and no other voice changes.
C3_NoteOnAllocatesLowestFreeVoice ==
    [][ /\ findFreeVoice = LowestInactive
        /\ (IsCall("noteOn") /\ ~AllActive) =>
              LET f == LowestInactive
              IN  /\ lastCall'.voice = f
                  /\ \A v \in VoiceIdx \ {f} : voices_'[v] = voices_[v]
                  /\ voices_'[f].active
                  /\ voices_'[f].note = lastCall'.note
                  /\ \A op \in OpIdx :
                        LET o2 == voices_'[f].operators[op]
                        IN  /\ o2.envelopeState = ATTACK
                            /\ o2.envelopeTime = 0
                            /\ o2.envelopeLevel = 0
                            /\ o2.frequency = noteToFrequency22Bit(lastCall'.note)
                                                * currentPreset_.frequencies[op]
                            /\ o2.amplitude = currentPreset_.amplitudes[op]
                            /\ o2.modulationIndex = currentPreset_.modulationIndices[op]
                            /\ o2.waveform = currentPreset_.waveforms[op]
                            /\ o2.attack = currentPreset_.attacks[op]
                            /\ o2.decay = currentPreset_.decays[op]
                            /\ o2.sustain = currentPreset_.sustains[op]
                            /\ o2.release = currentPreset_.releases[op]
      ]_vars

\* C3 witness: voice 0, reclaimed earlier, has just been allocated again with
\* a preset set by setPresetConfig while a higher voice is still sounding.
C3_Witness ==
    /\ lastCall.op = "noteOn" /\ ~lastCall.stole /\ lastCall.voice = 0
    /\ voices_[0].active /\ voices_[0].note = lastCall.note
    /\ \A op \in OpIdx : voices_[0].operators[op].envelopeState = ATTACK
    /\ \E v \in VoiceIdx \ {0} : voices_[v].active

\* Every operator of the voice is in RELEASE with envelopeTime 0.
JustReleased(vc) ==
    \A op \in OpIdx :
        /\ vc.operators[op].envelopeState = RELEASE
        /\ vc.operators[op].envelopeTime = 0

\* C4: noteOff(n) puts every operator of every active voice holding n into
\* RELEASE with envelopeTime 0, whatever its envelope state and however many
\* voices hold n; every other voice is unchanged.
C4_NoteOffReleasesEveryHolder ==
    [][ IsCall("noteOff") =>
          \A v \in VoiceIdx :
              IF v \in Held(lastCall'.note)
              THEN JustReleased(voices_'[v])
              ELSE voices_'[v] = voices_[v]
      ]_vars

\* C4 witness: a noteOff has just released two voices holding its note, one
\* of them caught at the start of ATTACK (level 0) and one past it.
C4_Witness ==
    /\ lastCall.op = "noteOff"
    /\ \E v, w \in VoiceIdx :
          /\ v # w
          /\ voices_[v].active /\ voices_[v].note = lastCall.note
          /\ voices_[w].active /\ voices_[w].note = lastCall.note
          /\ JustReleased(voices_[v]) /\ JustReleased(voices_[w])
          /\ voices_[v].operators[0].envelopeLevel = 0
          /\ voices_[w].operators[0].envelopeLevel > 0

\* C5: noteOff(N) for a note no active voice holds changes no engine state.
C5_NoteOffOfSilentNoteIsNoOp ==
    [][ (IsCall("noteOff") /\ Held(lastCall'.note) = {}) => UNCHANGED engine ]_vars

\* C5 witness: a noteOff has just been made for a note that only a reclaimed
\* (inactive) voice still carries, while another voice sounds.
C5_Witness ==
    /\ lastCall.op = "noteOff"
    /\ Held(lastCall.note) = {}
    /\ \E v \in VoiceIdx : Reclaimed(v) /\ voices_[v].note = lastCall.note
    /\ \E v \in VoiceIdx : voices_[v].active

\* C6: allNotesOff puts every operator of every active voice into RELEASE with
\* envelopeTime 0 and changes no inactive voice and no active flag or note.
C6_AllNotesOffReleasesActiveVoices ==
    [][ IsCall("allNotesOff") =>
          \A v \in VoiceIdx :
              /\ voices_'[v].active = voices_[v].active
              /\ voices_'[v].note = voices_[v].note
              /\ IF voices_[v].active
                 THEN JustReleased(voices_'[v])
                 ELSE voices_'[v] = voices_[v]
      ]_vars

\* C6 witness: an allNotesOff has just released a sounding voice and left a
\* reclaimed voice, whose operators are OFF, alone.
C6_Witness ==
    /\ lastCall.op = "allNotesOff"
    /\ \E v \in VoiceIdx : voices_[v].active /\ JustReleased(voices_[v])
    /\ \E v \in VoiceIdx : Reclaimed(v) /\ allReleased(voices_[v])

\* C7: a tick clears a voice's active flag only if, after its envelope update,
\* every operator of the voice is OFF.
C7_DeactivatedOnlyWhenAllOff ==
    [][ IsCall("generateSample") =>
          \A v \in VoiceIdx :
              (voices_[v].active /\ ~voices_'[v].active) =>
                  \A op \in OpIdx : voices_'[v].operators[op].envelopeState = OFF
      ]_vars

\* C7 witness: a tick has left a voice active one of whose operators is OFF
\* and another still in RELEASE.
C7_Witness ==
    /\ lastCall.op = "generateSample"
    /\ \E v \in VoiceIdx :
          /\ voices_[v].active
          /\ \E op \in OpIdx : voices_[v].operators[op].envelopeState = OFF
          /\ \E op \in OpIdx : voices_[v].operators[op].envelopeState = RELEASE

\* Voice v enters the tick with an operator not yet OFF and the tick's
\* envelope update brings its last operators to OFF.
LastOperatorReachesOff(v) ==
    /\ IsCall("generateSample")
    /\ voices_[v].active
    /\ ~allReleased(voices_[v])
    /\ allReleased(envelopesUpdated(voices_[v]))

\* C8 as stated: in the tick in which the last operator of a voice reaches OFF
\* the voice is still active at the end of the tick (and becomes inactive one
\* tick later).
C8_Original_InactiveOneTickLater ==
    [][ \A v \in VoiceIdx : LastOperatorReachesOff(v) => voices_'[v].active ]_vars

\* C8 amended: a voice becomes inactive in the very tick in which its last
\* operator reaches OFF, and not before: a tick deactivates an active voice
\* exactly when its operators are all OFF after the envelope update.
C8_InactiveInTheSameTick ==
    [][ IsCall("generateSample") =>
          \A v \in VoiceIdx :
              /\ LastOperatorReachesOff(v) => ~voices_'[v].active
              /\ voices_[v].active =>
                    (~voices_'[v].active <=> allReleased(envelopesUpdated(voices_[v])))
              /\ voices_[v].active /\ ~voices_'[v].active =>
                    voices_'[v].operators = envelopesUpdated(voices_[v]).operators
      ]_vars

\* C8 witness: a reclaimed voice whose operators are OFF with envelopeTime
\* equal to their release time: the tick that brought them to OFF is the one
\* that deactivated the voice.
C8_Witness ==
    /\ lastCall.op = "generateSample"
    /\ \E v \in VoiceIdx :
          /\ Reclaimed(v)
          /\ \A op \in OpIdx :
                /\ voices_[v].operators[op].envelopeState = OFF
                /\ voices_[v].operators[op].envelopeTime
                       = voices_[v].operators[op].release

\* C9: every inactive voice has note -1.
C9_InactiveVoiceHasNoNote ==
    \A v \in VoiceIdx : ~voices_[v].active => voices_[v].note = -1

EnvelopeEdges == {<<ATTACK, DECAY>>, <<DECAY, SUSTAIN>>, <<RELEASE, OFF>>}

\* C10: a tick changes an operator's envelope state only along ATTACK->DECAY,
\* DECAY->SUSTAIN and RELEASE->OFF; after a tick an operator that was in
\* SUSTAIN is in SUSTAIN with level equal to sustain; an operator leaves
\* SUSTAIN only by a noteOff of its note, an allNotesOff or a noteOn that
\* reuses its voice.
C10_EnvelopeEdgesAndSustainHold ==
    [][ \A v \in VoiceIdx : \A op \in OpIdx :
          LET o == voices_[v].operators[op]
              o2 == voices_'[v].operators[op]
          IN  /\ IsCall("generateSample") =>
                    /\ \/ o2.envelopeState = o.envelopeState
                       \/ <<o.envelopeState, o2.envelopeState>> \in EnvelopeEdges
                    /\ (voices_[v].active /\ o.envelopeState = SUSTAIN) =>
                          /\ o2.envelopeState = SUSTAIN
                          /\ o2.envelopeLevel = o2.sustain
              /\ (o.envelopeState = SUSTAIN /\ o2.envelopeState # SUSTAIN) =>
                    \/ IsCall("noteOff") /\ v \in Held(lastCall'.note)
                    \/ IsCall("allNotesOff") /\ voices_[v].active
                    \/ IsCall("noteOn") /\ lastCall'.voice = v
      ]_vars

\* C10 witness: after a tick an operator has been in SUSTAIN, at its sustain
\* level, for as long as the model lets ticks run.
C10_Witness ==
    /\ lastCall.op = "generateSample"
    /\ \E v \in VoiceIdx : \E op \in OpIdx :
          LET o == voices_[v].operators[op]
          IN  /\ voices_[v].active
              /\ o.envelopeState = SUSTAIN
              /\ o.envelopeLevel = o.sustain
              /\ o.sustain > 0
              /\ o.envelopeTime = MaxEnvelopeTicks

\* C11: an operator whose envelope state is OFF stays OFF with level 0 until a
\* noteOn re-initializes its voice: no noteOff, allNotesOff or tick moves it
\* out of OFF, also while other operators of its active voice still sound.
C11_OffStaysOffUntilNoteOn ==
    [][ \A v \in VoiceIdx : \A op \in OpIdx :
          LET o == voices_[v].operators[op]
              o2 == voices_'[v].operators[op]
          IN  o.envelopeState = OFF =>
                  \/ IsCall("noteOn") /\ lastCall'.voice = v
                  \/ o2.envelopeState = OFF /\ o2.envelopeLevel = MIN_VOLUME
      ]_vars

\* The release time of an operator in sample ticks: release x sampleRate,
\* rounded up.
ReleaseTicks(o) == (o.release + timeStep_ - 1) \div timeStep_

\* A tick counts one step of a releasing operator of an active voice, takes
\* the operator to OFF once `ticks` steps have been counted since the noteOff,
\* and a voice whose operators are then all OFF is inactive and findFreeVoice
\* can return it.
ReleasedWithin(v, op, ticks) ==
    LET o == voices_[v].operators[op]
        o2 == voices_'[v].operators[op]
    IN  (voices_[v].active /\ o.envelopeState = RELEASE) =>
            /\ o2.envelopeTime = o.envelopeTime + timeStep_
            /\ o2.envelopeTime >= ticks * timeStep_ => o2.envelopeState = OFF
            /\ allReleased(voices_'[v]) =>
                  /\ ~voices_'[v].active
                  /\ findFreeVoice' \in 0 .. v

\* C12 as stated: after noteOff(n), with ticks running and no further control
\* call, every operator of a voice that held n is OFF after release x
\* sampleRate (rounded up) ticks, and the voice is then inactive and free.
C12_Original_OffWithinReleaseTicks ==
    [][ IsCall("generateSample") =>
          \A v \in VoiceIdx : \A op \in OpIdx :
              ReleasedWithin(v, op, ReleaseTicks(voices_[v].operators[op]))
      ]_vars

\* C12 amended: the same with one more tick: the envelopeTime the code
\* compares with release is a sum of rounded steps and can be just below
\* release when release x sampleRate ticks have run.
C12_OffWithinReleaseTicksPlusOne ==
    [][ IsCall("generateSample") =>
          \A v \in VoiceIdx : \A op \in OpIdx :
              ReleasedWithin(v, op, ReleaseTicks(voices_[v].operators[op]) + 1)
      ]_vars

\* C12 witness: a tick has just reclaimed a voice whose operators, released by
\* a noteOff, went OFF one tick after their release time.
C12_Witness ==
    /\ lastCall.op = "generateSample"
    /\ \E v \in VoiceIdx :
          /\ Reclaimed(v)
          /\ findFreeVoice \in 0 .. v
          /\ \A op \in OpIdx :
                LET o == voices_[v].operators[op]
                IN  /\ o.envelopeState = OFF
                    /\ o.sustain > 0
                    /\ o.envelopeTime = (ReleaseTicks(o) + 1) * timeStep_

\* C13: across the ticks of one operator, envelopeLevel does not decrease
\* while the operator is in ATTACK, and does not increase while it is in DECAY
\* or in RELEASE.
C13_EnvelopeLevelMonotone ==
    [][ IsCall("generateSample") =>
          \A v \in VoiceIdx : \A op \in OpIdx :
              LET o == voices_[v].operators[op]
                  o2 == voices_'[v].operators[op]
              IN  /\ o.envelopeState = ATTACK => o2.envelopeLevel >= o.envelopeLevel
                  /\ o.envelopeState = DECAY => o2.envelopeLevel <= o.envelopeLevel
                  /\ o.envelopeState = RELEASE => o2.envelopeLevel <= o.envelopeLevel
      ]_vars

\* C14: in every reachable state every operator's envelopeLevel is within
\* [0, 1].
C14_EnvelopeLevelWithinUnitRange ==
    \A v \in VoiceIdx : \A op \in OpIdx :
        /\ voices_[v].operators[op].envelopeLevel >= MIN_VOLUME
        /\ voices_[v].operators[op].envelopeLevel <= MAX_VOLUME

\* C15: in every reachable state every operator has attack, decay and release
\* above 0 and sustain and amplitude within [0, 1].
C15_OperatorParametersWellFormed ==
    \A v \in VoiceIdx : \A op \in OpIdx :
        LET o == voices_[v].operators[op]
        IN  /\ o.attack > 0 /\ o.decay > 0 /\ o.release > 0
            /\ o.sustain >= MIN_VOLUME /\ o.sustain <= MAX_VOLUME
            /\ o.amplitude >= MIN_AMPLITUDE /\ o.amplitude <= MAX_AMPLITUDE

\* The operator carries the parameters of the preset template for index op.
CarriesPreset(o, op) ==
    /\ o.amplitude = currentPreset_.amplitudes[op]
    /\ o.modulationIndex = currentPreset_.modulationIndices[op]
    /\ o.waveform = currentPreset_.waveforms[op]
    /\ o.attack = currentPreset_.attacks[op]
    /\ o.decay = currentPreset_.decays[op]
    /\ o.sustain = currentPreset_.sustains[op]
    /\ o.release = currentPreset_.releases[op]

\* C18: setPresetConfig changes the stored preset template and nothing else:
\* no voice and no operator, sounding or not, changes; the stored template is
\* one of the argument tuples, no other call changes it, and the voice the
\* next noteOn allocates carries its values.
C18_SetPresetConfigOnlyStoresTemplate ==
    [][ /\ IsCall("setPresetConfig") =>
              /\ voices_' = voices_
              /\ UNCHANGED <<sampleRate_, timeStep_, controls>>
              /\ currentPreset_' \in PresetConfigs
        /\ ~IsCall("setPresetConfig") => currentPreset_' = currentPreset_
        /\ IsCall("noteOn") =>
              \A op \in OpIdx :
                  LET o2 == voices_'[lastCall'.voice].operators[op]
                  IN  /\ CarriesPreset(o2, op)
                      /\ o2.frequency = noteToFrequency22Bit(lastCall'.note)
                                          * currentPreset_.frequencies[op]
      ]_vars

\* C18 witness: a noteOn has just allocated a voice with the template stored
\* by a setPresetConfig that was made while another voice was sounding; that
\* voice still carries the parameters of the template it was started with.
C18_Witness ==
    /\ lastCall.op = "noteOn"
    /\ currentPreset_ = StaggeredPreset
    /\ \A op \in OpIdx : CarriesPreset(voices_[lastCall.voice].operators[op], op)
    /\ \E v \in VoiceIdx \ {lastCall.voice} :
          /\ voices_[v].active
          /\ \A op \in OpIdx :
                /\ voices_[v].operators[op].amplitude = DefaultPreset.amplitudes[op]
                /\ voices_[v].operators[op].release = DefaultPreset.releases[op]

\* A value stored clamped to [0, 1]: above 1 as 1, below 0 as 0.
StoredInUnitRange(stored, x) ==
    stored = IF x > MAX_VOLUME THEN MAX_VOLUME ELSE IF x < 0 THEN 0 ELSE x

\* An envelope time stored raised to the floor.
StoredAboveFloor(stored, x) ==
    stored = IF x <= 0 \/ x < MIN_ENVELOPE_TIME THEN MIN_ENVELOPE_TIME ELSE x

\* C16: setMasterVolume, setReverb, setChorus, setDistortion,
\* setOperatorAmplitude and the sustain argument of setEnvelope store their
\* argument clamped to [0, 1]; setEnvelope stores attack, decay and release
\* raised to the minimum positive floor when the argument is at or below 0 or
\* below the floor.
C16_SettersClampTheirArguments ==
    [][ LET a == lastCall'.args
        IN  /\ IsCall("setMasterVolume") => StoredInUnitRange(masterVolume_', a[1])
            /\ IsCall("setReverb") => StoredInUnitRange(reverbAmount_', a[1])
            /\ IsCall("setChorus") => StoredInUnitRange(chorusAmount_', a[1])
            /\ IsCall("setDistortion") => StoredInUnitRange(distortionAmount_', a[1])
            /\ (IsCall("setOperatorAmplitude")
                    /\ a[1] \in VoiceIdx /\ a[2] \in OpIdx) =>
                  StoredInUnitRange(voices_'[a[1]].operators[a[2]].amplitude, a[3])
            /\ (IsCall("setEnvelope") /\ a[1] \in VoiceIdx /\ a[2] \in OpIdx) =>
                  LET o2 == voices_'[a[1]].operators[a[2]]
                  IN  /\ StoredAboveFloor(o2.attack, a[3])
                      /\ StoredAboveFloor(o2.decay, a[4])
                      /\ StoredInUnitRange(o2.sustain, a[5])
                      /\ StoredAboveFloor(o2.release, a[6])
      ]_vars

\* C16 witness: after a master volume below 0 was stored as 0, a setEnvelope
\* with attack 0, a negative decay and sustain above 1 has stored the floor
\* for both times and 1 for the sustain level.
C16_Witness ==
    /\ lastCall.op = "setEnvelope"
    /\ lastCall.args = <<0, 0, 0, -3, 15, 2>>
    /\ voices_[0].operators[0].attack = MIN_ENVELOPE_TIME
    /\ voices_[0].operators[0].decay = MIN_ENVELOPE_TIME
    /\ voices_[0].operators[0].sustain = MAX_VOLUME
    /\ voices_[0].operators[0].release = 2
    /\ masterVolume_ = MIN_VOLUME

\* The arguments of the call are indices the setter accepts.
ValidIndices(call) ==
    LET a == call.args
    IN  CASE call.op \in {"setOperatorFrequency", "setOperatorAmplitude",
                          "setOperatorModulationIndex", "setOperatorWaveform",
                          "setEnvelope"} ->
                 a[1] \in 0 .. (MAX_VOICES - 1) /\ a[2] \in 0 .. (MAX_OPERATORS - 1)
          [] call.op \in {"setChannelActive", "setPitchBend", "setModulationWheel"} ->
                 a[1] \in 0 .. (MAX_CHANNELS - 1)
          [] call.op = "setAlgorithm" ->
                 a[1] \in 0 .. (MAX_CHANNELS - 1) /\ a[2] \in 0 .. (MAX_ALGORITHMS - 1)
          [] OTHER -> TRUE

\* C17: a setter called with a voice, operator, channel or algorithm index
\* out of its range changes no engine state, and every channel's algorithm
\* index is within [0, 31] in every reachable state.
C17_InvalidIndexIsNoOp ==
    /\ [](\A c \in ChannelIdx : channels_[c].algorithm \in 0 .. (MAX_ALGORITHMS - 1))
    /\ [][ ~ValidIndices(lastCall') => UNCHANGED engine ]_vars

\* C17 witness: with a voice sounding, setAlgorithm has just been called with
\* the algorithm index 32 and channel 0 still has algorithm 0.
C17_Witness ==
    /\ lastCall.op = "setAlgorithm"
    /\ lastCall.args = <<0, MAX_ALGORITHMS>>
    /\ channels_[0].algorithm = 0
    /\ \E v \in VoiceIdx : voices_[v].active

Scaled(sample) == TruncDiv(sample * AUDIO_SCALE, MAX_VOLUME)

C20_PhaseAccumulatorWithinOneCycle ==
    \A v \in VoiceIdx : \A op \in OpIdx :
        /\ voices_[v].operators[op].phaseAccumulator >= 0
        /\ voices_[v].operators[op].phaseAccumulator < TWO_PI

\* The step is a setPitchBend or setModulationWheel call with a valid channel;
\* the written field comes with it.
Broadcasts(call, field) ==
    /\ \/ call.op = "setPitchBend" /\ field = "pitchBend"
       \/ call.op = "setModulationWheel" /\ field = "modulationWheel"
    /\ validChannel(call.args[1])

\* C27: setPitchBend(c, b) with a valid channel c records b on channel c and
\* sets pitchBend = b on every operator of every voice whose channel is c,
\* leaving the voices of other channels as they were; setModulationWheel(c, m)
\* does the same for modulationWheel.
C27_BendAndWheelReachTheChannelsVoices ==
    [][\A field \in {"pitchBend", "modulationWheel"} :
          Broadcasts(lastCall', field) =>
              LET c == lastCall'.args[1]
                  value == lastCall'.args[2]
              IN  /\ channels_'[c][field] = value
                  /\ \A v \in VoiceIdx :
                        IF voices_[v].channel = c
                        THEN \A op \in OpIdx :
                               voices_'[v].operators[op] =
                                   [voices_[v].operators[op] EXCEPT ![field] = value]
                        ELSE voices_'[v] = voices_[v]]_vars

\* A pitch bend on channel 0 has reached the operators of a sounding voice.
C27_Witness ==
    /\ lastCall.op = "setPitchBend"
    /\ validChannel(lastCall.args[1])
    /\ channels_[lastCall.args[1]].pitchBend = lastCall.args[2]
    /\ \E v \in VoiceIdx :
          /\ voices_[v].active
          /\ voices_[v].channel = lastCall.args[1]
          /\ \A op \in OpIdx :
                /\ voices_[v].operators[op].pitchBend = lastCall.args[2]
                /\ voices_[v].operators[op].pitchBend # DefaultOperator.pitchBend

\* The output of one operator of the routed voice under a modulation input.
Out(op, modulation) == generateOperatorOutput(router.voice.operators[op], modulation)

\* The unmodulated outputs of the operators 0 .. op added up.
RECURSIVE Unmodulated(_)
Unmodulated(op) == IF op < 0 THEN 0 ELSE Out(op, 0) + Unmodulated(op - 1)

\* C22: for algorithm index 31 the voice sample is the sum of the six
\* operators' outputs, each generated with modulation input 0 (no operator
\* feeds another, every operator contributes exactly once).
C22_Algorithm31SumsSixCarriers ==
    [][router'.algorithm = 31 => router'.voiceOutput = Unmodulated(5)]_vars

\* Algorithm 31 has been applied and its output exceeds what one carrier can
\* deliver on its own.
C22_Witness ==
    /\ router.algorithm = 31
    /\ router.voiceOutput > MAX_VOLUME

\* C23: algorithm indices 22, 23, 29 and 30 give the same voice sample for
\* every operator state: the sum of the raw outputs of operators 1-5 is the
\* one modulation input of operator 6, whose output is the sample.
C23_AllIntoSixDuplicatesAgree ==
    /\ [](\A a \in {22, 23, 29, 30} :
             routedOutput(a, router.voice) = Out(5, Unmodulated(4)))
    /\ [][router'.algorithm \in {22, 23, 29, 30}
             => router'.voiceOutput = Out(5, Unmodulated(4))]_vars

\* One of the duplicates has been applied and the modulation has turned the
\* output of operator 6, positive on its own at these phases, negative.
C23_Witness ==
    /\ router.algorithm = 30
    /\ router.voiceOutput < 0

\* The routings the documentation of processAlgorithm17 .. 21 states: operator
\* 1 as a direct carrier beside the modulated carrier.
DocumentedCarriers(a) ==
    Out(0, 0) +
    CASE a = 17 -> Out(4, Out(3, Out(1, 0) + Out(5, 0)))
      [] a = 18 -> Out(3, Out(1, Out(2, 0) + Out(4, 0) + Out(5, 0)))
      [] a = 19 -> Out(3, Out(1, Out(2, 0) + Out(5, 0)) + Out(4, 0))
      [] a \in {20, 21} -> Out(3, Out(2, Out(1, 0) + Out(5, 0)) + Out(4, 0))

\* C24: for algorithm indices 17 to 21 the voice sample is the combined output
\* of two carriers: operator 1, unmodulated, plus operator 5 (index 17) or
\* operator 4 (indices 18-21) driven by its modulators.
C24_DirectCarrierIsPartOfTheSample ==
    [][router'.algorithm \in 17 .. 21
          => router'.voiceOutput = DocumentedCarriers(router'.algorithm)]_vars

C26_AtMostOneAudioThread == Cardinality(LiveThreads) <= 1

\* The last call of the control thread was a stopAudioThread, and it has
\* returned.
StopReturned ==
    /\ caller[GuiThread].pc = "idle"
    /\ caller[GuiThread].op = "stopAudioThread"

\* No sample is generated or delivered, and no voice changes but by a call
\* of the control thread.
AudioThreadSilent ==
    /\ frames' = frames
    /\ written' = written
    /\ deviceWrites' = deviceWrites
    /\ voices_' # voices_ => lastCall'.op \in {"noteOn", "noteOff"}

\* C25: once stopAudioThread has returned no audio thread is left,
\* isAudioThreadRunning is false and no sample is generated or delivered nor
\* a voice changed by an audio thread; a thread that reaches its loop test
\* after the stop request begins no further iteration; and stopAudioThread
\* on an engine whose thread is not running changes nothing.
C25_StopJoinsTheAudioThread ==
    /\ [](StopReturned => (LiveThreads = {} /\ ~audioThreadRunning_))
    /\ [][/\ StopReturned => AudioThreadSilent
          /\ \A t \in ThreadIds :
                (shouldStop_ /\ audioThreads[t].pc \in {"loop", "sleep"})
                    => audioThreads'[t].pc \in {"loop", "sleep", "exited"}
          /\ (/\ ~audioThreadRunning_
              /\ caller[GuiThread].pc = "idle"
              /\ caller' # caller
              /\ caller'[GuiThread].pc = "idle"
              /\ caller'[GuiThread].op = "stopAudioThread")
                => UNCHANGED <<engine, stream, audioThreadRunning_, shouldStop_,
                               audioThread_, audioIODevice_, audioThreads,
                               terminated, deviceWrites, frames>>]_vars

\* A stop has returned after the audio thread it joined delivered a frame.
C25_Witness ==
    /\ StopReturned
    /\ caller[GuiThread].result = "stopped"
    /\ frames > 0
    /\ \E t \in ThreadIds : audioThreads[t].pc = "exited"


\* The samples of the audio thread among the written ones.
EngineSamples == SelectSeq(written, LAMBDA s : s.side \in {"left", "right"})

\* C28: the samples taken by readSample and readSamples, followed by the
\* samples still queued, are the samples written, in the order of the
\* writes (none lost, none twice, none out of order), each read returns the
\* samples that were then at the front, and the audio thread's samples are
\* written frame by frame, left then right.
C28_StreamKeepsTheWriteOrder ==
    /\ [](taken \o samples_ = written)
    /\ [](\A k \in 1 .. Len(EngineSamples) :
            /\ EngineSamples[k].frame = (k + 1) \div 2
            /\ EngineSamples[k].side = IF k % 2 = 1 THEN "left" ELSE "right")
    /\ [][\A r \in Readers :
            (readers[r].pc = "locked" /\ readers'[r].pc = "idle")
                => /\ readers'[r].got = SubSeq(samples_, 1, Len(readers'[r].got))
                   /\ samples_' = SubSeq(samples_, Len(readers'[r].got) + 1, Len(samples_))]_vars

\* The reader has taken the first frame and the left sample of the second
\* while the audio thread is about to write the right one.
C28_Witness ==
    /\ Len(taken) = 3
    /\ taken[3].frame = 2 /\ taken[3].side = "left"
    /\ readers[StreamReader].got # <<>>
    /\ \E t \in ThreadIds : audioThreads[t].pc \in {"write", "writing"}

\* Reader r is inside the wait of readSample.
Blocked(r) == readers[r].pc \in {"waiting", "woken"}

\* readSample returns to reader r in this step.
Returns(r) ==
    /\ readers[r].op = "readSample"
    /\ readers[r].pc = "locked"
    /\ readers'[r].pc = "idle"

\* readSample returns only with the front sample of a stream that is not
\* empty, and waits when the stream is empty.
ReadSampleBlocksOnEmpty ==
    \A r \in Readers :
        /\ Returns(r) => (samples_ # <<>> /\ readers'[r].got = <<Head(samples_)>>)
        /\ (readers[r].op = "readSample" /\ readers[r].pc = "locked"
                /\ samples_ = <<>> /\ readers'[r] # readers[r])
              => readers'[r].pc = "waiting"

C30_AddedSynthesizerIsStarted ==
    windowCall = "onAddSynthesizerTab"
        => synthesizers_[Len(synthesizers_)].audioThreadRunning_


\* What one tick does to voice v, stated step by step: the six envelopes are
\* updated; a voice whose operators are then all OFF is deactivated, adds
\* nothing to the sample and keeps its phases; any other voice is routed and
\* given its effects with the phases of the start of the tick, and its six
\* phases are advanced afterwards.
TickOrder(v) ==
    LET vc == voices_[v]
        env == [op \in OpIdx |-> updateEnvelope(vc.operators[op])]
        atStart == [vc EXCEPT !.operators = env]
    IN  vc.active =>
          /\ \A op \in OpIdx :
                /\ voices_'[v].operators[op].envelopeState = env[op].envelopeState
                /\ voices_'[v].operators[op].envelopeLevel = env[op].envelopeLevel
                /\ voices_'[v].operators[op].envelopeTime = env[op].envelopeTime
          /\ IF \A op \in OpIdx : env[op].envelopeState = OFF
             THEN /\ ~voices_'[v].active
                  /\ voiceOutput(v) = 0
                  /\ \A op \in OpIdx :
                        voices_'[v].operators[op].phaseAccumulator
                            = vc.operators[op].phaseAccumulator
             ELSE /\ voices_'[v].active
                  /\ voiceOutput(v) =
                        applyEffects(processAlgorithm(channels_[vc.channel].algorithm,
                                                      atStart))
                  /\ \A op \in OpIdx :
                        voices_'[v].operators[op].phaseAccumulator
                            = updateOperatorPhase22Bit(vc.operators[op]).phaseAccumulator

\* C31: in every tick each active voice has its envelopes updated, then the
\* all-OFF test, then routing and effects on the phases of the start of the
\* tick, then the phase advance; a voice found all OFF contributes nothing
\* and has no phase advanced.
C31_TickStepsInOrder ==
    [][lastCall'.op = "generateSample" => \A v \in VoiceIdx : TickOrder(v)]_vars

\* A tick has run that left one voice deactivated with its note, while
\* another voice sounds with an advanced phase.
C31_Witness ==
    /\ lastCall.op = "generateSample"
    /\ \E v \in VoiceIdx : ~voices_[v].active /\ voices_[v].note # -1
    /\ \E v \in VoiceIdx :
          /\ voices_[v].active
          /\ \E op \in OpIdx : voices_[v].operators[op].phaseAccumulator # 0

\* C32: every loop iteration of the audio thread that found an active voice
\* generates one batch of BATCH_SIZE stereo frames and hands it to the sink in
\* use, the output device or the stream (the external and the internal stream
\* are written by the same generateSamples call).
C32_EveryIterationHandsOneBatch ==
    [][\A t \in ThreadIds :
          /\ (audioThreads[t].pc = "batch" /\ audioThreads'[t].pc = "sleep") =>
                /\ Len(deviceWrites') = Len(deviceWrites) + 1
                /\ Len(deviceWrites'[Len(deviceWrites')]) = 2 * BATCH_SIZE
          /\ (audioThreads[t].pc = "generate" /\ audioThreads'[t].pc = "write") =>
                Len(audioThreads'[t].pending) = 2 * BATCH_SIZE]_vars

\* C33: a noteOn call leaves the phase accumulator of all six operators of
\* the voice it initialises at 0, also when the voice sounded before.
C33_NoteOnResetsThePhases ==
    [][(lastCall'.op = "noteOn" /\ calls' = calls + 1) =>
          \A op \in OpIdx :
             voices_'[lastCall'.voice].operators[op].phaseAccumulator = 0]_vars

\* C35: whatever the interleaving with the audio thread's tick, when
\* noteOn(n) returns a voice with note n is active: a tick that runs between
\* the setting of the active flag and the initialisation of the operators
\* does not deactivate the voice.
C35_NoteSoundsWhenNoteOnReturns ==
    [][(ctl.pc = "ops" /\ ctl'.pc = "idle") =>
          \E v \in VoiceIdx : voices_'[v].active /\ voices_'[v].note = ctl.note]_vars

\* C36: the velocity of noteOn does not reach the samples.  Every operator's
\* velocity stays at its default (1.0, here MAX_VOLUME), and an instance given
\* the calls of another with other velocities returns the same samples.
C36_VelocityDoesNotReachTheSamples ==
    /\ \A v \in VoiceIdx, op \in OpIdx :
          voices_[v].operators[op].velocity = MAX_VOLUME
    /\ replay.run = 2 =>
          /\ replay.outputs = SubSeq(replay.first.outputs, 1, Len(replay.outputs))
          /\ replay.pos = Len(replay.trace) => replay.outputs = replay.first.outputs

\* Both instances have been given all the calls, a voice holds another
\* velocity in the second than in the first, and a tick returned a sample
\* other than silence.
C36_Witness ==
    /\ replay.run = 2
    /\ replay.pos = Len(replay.trace)
    /\ \E v \in VoiceIdx :
          /\ voices_[v].active
          /\ voices_[v].velocity # replay.first.engine[1][v].velocity
    /\ \E i \in 1 .. Len(replay.outputs) : replay.outputs[i] # <<0, 0>>

\* The engine's state beside the master volume.
BesideMasterVolume(e) == <<e[1], e[2], e[3], e[4], e[5][1], e[5][3], e[5][4], e[5][5]>>

OtherChannelSetter(call) ==
    /\ call.op \in {"setAlgorithm", "setPitchBend", "setModulationWheel"}
    /\ call.args[1] \in 1 .. (MAX_CHANNELS - 1)

\* C38: the channel of every voice is 0 before and after every step, and a call
\* of setAlgorithm, setPitchBend or setModulationWheel for one of the channels
\* 1 .. 7 changes no voice and no sample: the pool, the settings of channel 0
\* and the pair a tick returns are as before the call.
C38_VoicesStayOnChannelZero ==
    [][/\ \A v \in VoiceIdx : voices_[v].channel = 0 /\ voices_'[v].channel = 0
       /\ (calls' = calls + 1 /\ OtherChannelSetter(lastCall')) =>
             /\ voices_' = voices_
             /\ channels_'[0] = channels_[0]
             /\ left' = left
             /\ right' = right]_vars

\* A pitch bend has just been set for the last channel while a voice sounds
\* with a sample other than silence, its operators still at the default bend.
C38_Witness ==
    /\ lastCall.op = "setPitchBend"
    /\ lastCall.args[1] = MAX_CHANNELS - 1
    /\ channels_[MAX_CHANNELS - 1].pitchBend = lastCall.args[2]
    /\ left # 0
    /\ \E v \in VoiceIdx :
          /\ voices_[v].active
          /\ \A op \in OpIdx :
                voices_[v].operators[op].pitchBend = DefaultOperator.pitchBend

\* The step count of the current pattern.
CurrentSteps == patterns_[currentPattern_ + 1]

\* The position is a step of the current pattern, a stopped tracker is
\* neither paused nor away from step 0, and the steps triggered since
\* playback started are 0, 1, ..., N - 1, 0, ... in this order.
TrackerPosition ==
    /\ currentPattern_ \in 0 .. (Len(patterns_) - 1)
    /\ currentStep_ \in 0 .. (CurrentSteps - 1)
    /\ ~(paused_ /\ ~playing_)
    /\ ~playing_ => currentStep_ = 0
    /\ \A i \in 1 .. Len(triggered) : triggered[i] = (i - 1) % CurrentSteps

\* What a timer event, pause() and stop() do to the position.
TrackerSteps ==
    /\ (trackerCall' = "onPlaybackTimer" /\ playing_ /\ ~paused_) =>
          /\ triggered' = Append(triggered, currentStep_)
          /\ currentStep_' = (currentStep_ + 1) % CurrentSteps
    /\ (trackerCall' = "onPlaybackTimer" /\ (~playing_ \/ paused_)) =>
          UNCHANGED <<triggered, currentStep_>>
    /\ trackerCall' = "pause" =>
          /\ UNCHANGED <<currentStep_, triggered, playing_>>
          /\ playing_ => paused_' = ~paused_
    /\ trackerCall' = "stop" => currentStep_' = 0 /\ ~playing_' /\ ~paused_'

\* C34: while playing and not paused every timer event triggers the current
\* step and advances the position by one, wrapping after the last step, so the
\* steps are triggered in the order 0, 1, ..., N - 1, 0, ... and the position
\* stays within [0, N); pause keeps the position and resume continues from
\* it; play and stop reset it to 0; paused_ is never true while playing_ is
\* false.
C34_TimerStepsInOrderAndWrap ==
    [][/\ TrackerPosition /\ TrackerPosition'
       /\ TrackerSteps
       /\ trackerCall' = "play" => currentStep_' = 0 /\ playing_' /\ ~paused_']_vars

\* Playback has gone past the last step and wrapped, and the first step has
\* been triggered again.
C34_Witness ==
    /\ playing_ /\ ~paused_
    /\ trackerCall = "onPlaybackTimer"
    /\ Len(triggered) > DEFAULT_STEPS
    /\ triggered[Len(triggered)] = 0
    /\ currentStep_ = 1

\* C39: a call of the manager's noteOn, noteOff or controlChange with a
\* channel outside [0, MAX_MIDI_CHANNELS) is dropped: nothing is forwarded to
\* the engine, nothing of the manager changes, and channelVolumes_ is not read.
C39_InvalidChannelIsDropped ==
    [][(managerCall'.n # managerCall.n /\ managerCall'.channel \notin MidiChannelIdx) =>
          /\ UNCHANGED <<engine, lastCall, calls, channelVolumes_, channelModulations_>>
          /\ managerCall'.read = <<>>]_vars

====
